---------------------------- MODULE Spec2Model ----------------------------
(***************************************************************************)
(* The tag subsystem of libgit2 (src/tag.c): the tag-object parser, the    *)
(* annotation writer, and the create / create-from-buffer / delete         *)
(* operations over an object database and a reference store.               *)
(*                                                                         *)
(* Buffers are sequences of one-character strings; a C pointer into a      *)
(* buffer is a 1-based position, and buffer_end is Len(buf) + 1.           *)
(***************************************************************************)
EXTENDS Integers, Sequences, FiniteSets, TLC

(***************************************************************************)
(* Characters and C string helpers                                         *)
(***************************************************************************)
NL == "\n"

Digits == <<"0", "1", "2", "3", "4", "5", "6", "7", "8", "9">>

HexLower == <<"0", "1", "2", "3", "4", "5", "6", "7", "8", "9",
              "a", "b", "c", "d", "e", "f">>

HexUpper == <<"0", "1", "2", "3", "4", "5", "6", "7", "8", "9",
              "A", "B", "C", "D", "E", "F">>

\* The literals of tag.c.
ObjectHeader == <<"o", "b", "j", "e", "c", "t", " ">>
TypeHeader == <<"t", "y", "p", "e", " ">>
TagHeader == <<"t", "a", "g", " ">>
TaggerHeader == <<"t", "a", "g", "g", "e", "r", " ">>
GIT_REFS_TAGS_DIR == <<"r", "e", "f", "s", "/", "t", "a", "g", "s", "/">>

\* git_otype
GIT_OBJ_BAD == -1
GIT_OBJ_COMMIT == 1
GIT_OBJ_TREE == 2
GIT_OBJ_BLOB == 3
GIT_OBJ_TAG == 4

\* error codes
GIT_OK == 0
GIT_ERROR == -1
GIT_ENOTFOUND == -3
GIT_EEXISTS == -4

\* The width of an object id in bytes (GIT_OID_RAWSZ).  The width is a
\* parameter of the format; nothing in tag.c depends on its value.
OidRawSize == 2
GIT_OID_RAWSZ == OidRawSize
GIT_OID_HEXSZ == GIT_OID_RAWSZ * 2

\* tag_types[] of tag_parse, without its NULL entry 0: tag_types[i] is the
\* text of git_otype i.
tag_types ==
    << <<"c", "o", "m", "m", "i", "t", NL>>,
       <<"t", "r", "e", "e", NL>>,
       <<"b", "l", "o", "b", NL>>,
       <<"t", "a", "g", NL>> >>

\* git_object_type2string
git_object_type2string(type) ==
    SubSeq(tag_types[type], 1, Len(tag_types[type]) - 1)

\* memcmp(buf + pos, lit, strlen(lit)) == 0, for a range the caller has
\* checked to lie inside the buffer.
MemEq(buf, pos, lit) ==
    /\ pos + Len(lit) - 1 <= Len(buf)
    /\ SubSeq(buf, pos, pos + Len(lit) - 1) = lit

\* memchr(buf + pos, c, end - pos): the first position >= pos holding c, or
\* 0 (NULL).
RECURSIVE memchr(_, _, _, _)
memchr(buf, pos, c, end) ==
    IF pos >= end THEN 0
    ELSE IF buf[pos] = c THEN pos
    ELSE memchr(buf, pos + 1, c, end)

\* git__memrchr: the last position in [pos, end) holding c, or 0.
RECURSIVE memrchr(_, _, _, _)
memrchr(buf, pos, c, end) ==
    IF end <= pos THEN 0
    ELSE IF buf[end - 1] = c THEN end - 1
    ELSE memrchr(buf, pos, c, end - 1)

IndexIn(seq, c) ==
    IF \E i \in 1..Len(seq) : seq[i] = c
    THEN CHOOSE i \in 1..Len(seq) : seq[i] = c
    ELSE 0

\* printf("%u"): the decimal digits of a natural number.
RECURSIVE FmtDec(_)
FmtDec(n) ==
    IF n < 10 THEN <<Digits[n + 1]>>
    ELSE Append(FmtDec(n \div 10), Digits[(n % 10) + 1])

\* printf("%02d")
Fmt02(n) == IF n < 10 THEN <<"0">> \o FmtDec(n) ELSE FmtDec(n)

IsDigit(c) == IndexIn(Digits, c) # 0

\* The end of the run of decimal digits starting at pos.
RECURSIVE DigitsEnd(_, _, _)
DigitsEnd(buf, pos, end) ==
    IF pos < end /\ IsDigit(buf[pos]) THEN DigitsEnd(buf, pos + 1, end)
    ELSE pos

\* The value of the decimal digits buf[pos .. stop-1].
RECURSIVE DecValue(_, _, _)
DecValue(buf, pos, stop) ==
    IF stop <= pos THEN 0
    ELSE DecValue(buf, pos, stop - 1) * 10 + (IndexIn(Digits, buf[stop - 1]) - 1)

(***************************************************************************)
(* Object ids: GIT_OID_RAWSZ bytes, written as GIT_OID_HEXSZ hex digits.   *)
(***************************************************************************)
HexValue(c) ==
    IF IndexIn(HexLower, c) # 0 THEN IndexIn(HexLower, c) - 1
    ELSE IF IndexIn(HexUpper, c) # 0 THEN IndexIn(HexUpper, c) - 1
    ELSE -1

\* git_oid_fmt: two lower-case hex digits per byte.
git_oid_fmt(oid) ==
    [i \in 1..GIT_OID_HEXSZ |->
        IF i % 2 = 1 THEN HexLower[(oid[(i + 1) \div 2] \div 16) + 1]
        ELSE HexLower[(oid[i \div 2] % 16) + 1]]

\* git_oid_fromstr on the GIT_OID_HEXSZ characters at pos.
git_oid_fromstr(buf, pos) ==
    IF \E i \in 0..(GIT_OID_HEXSZ - 1) : HexValue(buf[pos + i]) < 0
    THEN [error |-> GIT_ERROR, oid |-> <<>>]
    ELSE [error |-> GIT_OK,
          oid |-> [i \in 1..GIT_OID_RAWSZ |->
                     HexValue(buf[pos + 2 * (i - 1)]) * 16
                     + HexValue(buf[pos + 2 * (i - 1) + 1])]]

\* git_oid__parse(&oid, &buffer, buffer_end, header): header, hex id, '\n'.
\* r is the result of git_oid_fromstr on the id's digits.
git_oid__parse_hex(pos, next, r) ==
    IF r.error < 0 THEN [error |-> GIT_ERROR, oid |-> <<>>, pos |-> pos]
    ELSE [error |-> GIT_OK, oid |-> r.oid, pos |-> next]

git_oid__parse(buf, pos, end, header) ==
    IF pos + (Len(header) + GIT_OID_HEXSZ + 1) > end
    THEN [error |-> GIT_ERROR, oid |-> <<>>, pos |-> pos]
    ELSE IF ~MemEq(buf, pos, header)
    THEN [error |-> GIT_ERROR, oid |-> <<>>, pos |-> pos]
    ELSE IF buf[pos + Len(header) + GIT_OID_HEXSZ] # NL
    THEN [error |-> GIT_ERROR, oid |-> <<>>, pos |-> pos]
    ELSE git_oid__parse_hex(pos, pos + (Len(header) + GIT_OID_HEXSZ + 1),
                            git_oid_fromstr(buf, pos + Len(header)))

\* git_oid__writebuf(buf, header, oid)
git_oid__writebuf(header, oid) == header \o git_oid_fmt(oid) \o <<NL>>

(***************************************************************************)
(* Signatures: [name, email, when |-> [time, offset]], offset in minutes.  *)
(* A NULL pointer is the empty tuple, a non-NULL one a 1-tuple.            *)
(***************************************************************************)
\* git_signature__writebuf(buf, header, sig):
\* "%s%s <%s> %u %c%02d%02d\n"
git_signature__writebuf(header, sig) ==
    header \o sig.name \o <<" ", "<">> \o sig.email \o <<">", " ">>
    \o FmtDec(sig.when.time)
    \o <<" ", IF sig.when.offset < 0 THEN "-" ELSE "+">>
    \o Fmt02((IF sig.when.offset < 0 THEN 0 - sig.when.offset
              ELSE sig.when.offset) \div 60)
    \o Fmt02((IF sig.when.offset < 0 THEN 0 - sig.when.offset
              ELSE sig.when.offset) % 60)
    \o <<NL>>

\* extract_trimmed: the text without its leading and trailing spaces.
RECURSIVE extract_trimmed(_)
extract_trimmed(text) ==
    IF text = <<>> THEN text
    ELSE IF text[1] = " " THEN extract_trimmed(Tail(text))
    ELSE IF text[Len(text)] = " "
    THEN extract_trimmed(SubSeq(text, 1, Len(text) - 1))
    ELSE text

\* git_signature__parse(sig, &buffer, buffer_end, header, ender), one
\* operator per stage; each takes what the stages before it found.
SignatureError(pos) == [error |-> GIT_ERROR, sig |-> <<>>, pos |-> pos]

Signature(buf, start, email_start, email_end, time, offset, next) ==
    [error |-> GIT_OK,
     sig |-> <<[name |-> extract_trimmed(SubSeq(buf, start, email_start - 1)),
                email |-> extract_trimmed(
                              SubSeq(buf, email_start + 1, email_end - 1)),
                when |-> [time |-> time, offset |-> offset]]>>,
     pos |-> next]

\* The time zone "+hhmm" as minutes; a malformed one counts as zero.
signature_offset(buf, tz_start, tz_end) ==
    IF buf[tz_start] \notin {"-", "+"} \/ tz_end <= tz_start + 1 THEN 0
    ELSE IF buf[tz_start] = "-"
    THEN 0 - ((DecValue(buf, tz_start + 1, tz_end) \div 100) * 60
              + (DecValue(buf, tz_start + 1, tz_end) % 100))
    ELSE (DecValue(buf, tz_start + 1, tz_end) \div 100) * 60
         + (DecValue(buf, tz_start + 1, tz_end) % 100)

signature_parse_time(buf, pos, start, line_end, email_start, email_end, time_end) ==
    IF time_end = email_end + 2 THEN SignatureError(pos)
    ELSE Signature(buf, start, email_start, email_end,
                   DecValue(buf, email_end + 2, time_end),
                   IF time_end + 1 < line_end
                   THEN signature_offset(buf, time_end + 1,
                            DigitsEnd(buf, time_end + 2, line_end))
                   ELSE 0,
                   line_end + 1)

signature_parse_email(buf, pos, start, line_end, email_start, email_end) ==
    IF email_start = 0 \/ email_end = 0 \/ email_end <= email_start
    THEN SignatureError(pos)
    ELSE IF email_end + 2 < line_end
    THEN signature_parse_time(buf, pos, start, line_end, email_start,
                              email_end,
                              DigitsEnd(buf, email_end + 2, line_end))
    ELSE Signature(buf, start, email_start, email_end, 0, 0, line_end + 1)

signature_parse_line(buf, pos, header, line_end) ==
    IF line_end = 0 THEN SignatureError(pos)
    ELSE IF pos + Len(header) >= line_end \/ ~MemEq(buf, pos, header)
    THEN SignatureError(pos)
    ELSE signature_parse_email(buf, pos, pos + Len(header), line_end,
             memrchr(buf, pos + Len(header), "<", line_end),
             memrchr(buf, pos + Len(header), ">", line_end))

git_signature__parse(buf, pos, end, header, ender) ==
    signature_parse_line(buf, pos, header, memchr(buf, pos, ender, end))

(***************************************************************************)
(* tag_parse (tag.c:68), one operator per field.  The result carries the   *)
(* fields of git_tag, the return value, the text given to tag_error, and   *)
(* the source line at which the function returns.                          *)
(***************************************************************************)
ParseExit(ret, err, line, target, type, tag_name, tagger, message) ==
    [ret |-> ret, err |-> err, line |-> line, target |-> target,
     type |-> type, tag_name |-> tag_name, tagger |-> tagger,
     message |-> message]

\* tag_error: sets the error text and returns -1.
tag_error(str, line) ==
    ParseExit(GIT_ERROR, str, line, <<>>, GIT_OBJ_BAD, <<>>, <<>>, <<>>)

\* Lines 135-148 with the test of line 136 off by one: a separator with
\* nothing after it leaves the message NULL.
tag_parse_message_off_by_one(buf, end, target, type, tag_name, s) ==
    IF s.error < 0
    THEN ParseExit(GIT_ERROR, "Failed to parse signature", 132,
                   target, type, tag_name, <<>>, <<>>)
    ELSE IF s.pos < end /\ buf[s.pos] # NL
    THEN ParseExit(GIT_ERROR, "No new line before message", 138,
                   target, type, tag_name, s.sig, <<>>)
    ELSE IF s.pos + 1 < end
    THEN ParseExit(GIT_OK, "", 148, target, type, tag_name, s.sig,
                   <<SubSeq(buf, s.pos + 1, end - 1)>>)
    ELSE ParseExit(GIT_OK, "", 148, target, type, tag_name, s.sig, <<>>)

\* Lines 135-148: the message.  s is the result of the tagger step.
tag_parse_message(buf, end, target, type, tag_name, s) ==
    IF s.error < 0
    THEN ParseExit(GIT_ERROR, "Failed to parse signature", 132,
                   target, type, tag_name, <<>>, <<>>)
    ELSE IF s.pos < end
    THEN IF buf[s.pos] # NL
         THEN ParseExit(GIT_ERROR, "No new line before message", 138,
                        target, type, tag_name, s.sig, <<>>)
         ELSE ParseExit(GIT_OK, "", 148, target, type, tag_name, s.sig,
                        <<SubSeq(buf, s.pos + 1, end - 1)>>)
    ELSE ParseExit(GIT_OK, "", 148, target, type, tag_name, s.sig, <<>>)

\* Lines 127-133 taking for a tagger only a line that starts with "tagger ".
tag_parse_tagger_lenient(buf, pos, end, target, type, tag_name) ==
    IF pos < end /\ MemEq(buf, pos, TaggerHeader)
    THEN tag_parse_message(buf, end, target, type, tag_name,
             git_signature__parse(buf, pos, end, TaggerHeader, NL))
    ELSE tag_parse_message(buf, end, target, type, tag_name,
             [error |-> GIT_OK, sig |-> <<>>, pos |-> pos])

\* Lines 127-133: the optional tagger.
tag_parse_tagger(buf, pos, end, target, type, tag_name) ==
    IF pos < end /\ buf[pos] # NL
    THEN tag_parse_message(buf, end, target, type, tag_name,
             git_signature__parse(buf, pos, end, TaggerHeader, NL))
    ELSE tag_parse_message(buf, end, target, type, tag_name,
             [error |-> GIT_OK, sig |-> <<>>, pos |-> pos])

\* Lines 114-125: the name, up to the newline memchr found at search.
tag_parse_name_end(buf, pos, end, target, type, search) ==
    IF search = 0 THEN tag_error("Object too short", 116)
    ELSE tag_parse_tagger(buf, search + 1, end, target, type,
                          SubSeq(buf, pos, search - 1))

\* Lines 106-112 without the memcmp of lines 109-110.
tag_parse_name_unmarked(buf, pos, end, target, type) ==
    IF pos + 4 >= end THEN tag_error("Object too short", 107)
    ELSE tag_parse_name_end(buf, pos + 4, end, target, type,
                            memchr(buf, pos + 4, NL, end))

\* Lines 106-112: the "tag " marker.
tag_parse_name(buf, pos, end, target, type) ==
    IF pos + 4 >= end THEN tag_error("Object too short", 107)
    ELSE IF ~MemEq(buf, pos, TagHeader)
    THEN tag_error("Tag field not found", 110)
    ELSE tag_parse_name_end(buf, pos + 4, end, target, type,
                            memchr(buf, pos + 4, NL, end))

\* Lines 90-101: how the loop over tag_types leaves, from entry i on:
\* short (buffer + type_length >= buffer_end), a match at i, or
\* GIT_OBJ_BAD when no entry matched.
RECURSIVE tag_parse_type(_, _, _, _)
tag_parse_type(buf, pos, end, i) ==
    IF i > Len(tag_types) THEN [short |-> FALSE, type |-> GIT_OBJ_BAD]
    ELSE IF pos + Len(tag_types[i]) >= end
    THEN [short |-> TRUE, type |-> GIT_OBJ_BAD]
    ELSE IF MemEq(buf, pos, tag_types[i])
    THEN [short |-> FALSE, type |-> i]
    ELSE tag_parse_type(buf, pos, end, i + 1)

\* Lines 93-104, with t the way the loop left.
tag_parse_typed(buf, pos, end, target, t) ==
    IF t.short THEN tag_error("Object too short", 94)
    ELSE IF t.type = GIT_OBJ_BAD THEN tag_error("Invalid object type", 104)
    ELSE tag_parse_name(buf, pos + Len(tag_types[t.type]), end, target,
                        t.type)

\* Lines 78-88, with o the result of git_oid__parse.
tag_parse_object(buf, end, o) ==
    IF o.error < 0 THEN tag_error("Object field invalid", 79)
    ELSE IF o.pos + 5 >= end THEN tag_error("Object too short", 82)
    ELSE IF ~MemEq(buf, o.pos, TypeHeader)
    THEN tag_error("Type field not found", 85)
    ELSE tag_parse_typed(buf, o.pos + 5, end, o.oid,
                         tag_parse_type(buf, o.pos + 5, end, 1))

tag_parse(buf) ==
    tag_parse_object(buf, Len(buf) + 1,
                     git_oid__parse(buf, 1, Len(buf) + 1, ObjectHeader))

(***************************************************************************)
(* write_tag_annotation (tag.c:195): the bytes it hands to git_odb_write.  *)
(***************************************************************************)
\* The bytes without the git_buf_putc of line 210: no separator before the
\* message.
tag_annotation_bytes_unseparated(tag_name, target_id, target_type, tagger, message) ==
    git_oid__writebuf(ObjectHeader, target_id)
    \o TypeHeader \o git_object_type2string(target_type) \o <<NL>>
    \o TagHeader \o tag_name \o <<NL>>
    \o git_signature__writebuf(TaggerHeader, tagger)
    \o message

tag_annotation_bytes(tag_name, target_id, target_type, tagger, message) ==
    git_oid__writebuf(ObjectHeader, target_id)
    \o TypeHeader \o git_object_type2string(target_type) \o <<NL>>
    \o TagHeader \o tag_name \o <<NL>>
    \o git_signature__writebuf(TaggerHeader, tagger)
    \o <<NL>>
    \o message

(***************************************************************************)
(* The repository and the values callers pass in.                          *)
(***************************************************************************)
Repo == "repo"

\* An object id of GIT_OID_RAWSZ bytes, all equal to b.
OidOf(b) == [i \in 1..GIT_OID_RAWSZ |-> b]

\* The objects the repository holds from the start: one of each type.
CommitObj == [id |-> OidOf(193), type |-> GIT_OBJ_COMMIT, owner |-> Repo]
TreeObj == [id |-> OidOf(226), type |-> GIT_OBJ_TREE, owner |-> Repo]
BlobObj == [id |-> OidOf(179), type |-> GIT_OBJ_BLOB, owner |-> Repo]
TagObj == [id |-> OidOf(164), type |-> GIT_OBJ_TAG, owner |-> Repo]
InitialObjects == {CommitObj, TreeObj, BlobObj, TagObj}

\* An object of another repository, and an id no object has.
ForeignObj == [id |-> OidOf(246), type |-> GIT_OBJ_COMMIT, owner |-> "other"]
MissingOid == OidOf(213)

InitialOdb ==
    [id \in {o.id : o \in InitialObjects} |->
        LET o == CHOOSE x \in InitialObjects : x.id = id
        IN  [type |-> o.type, data |-> git_object_type2string(o.type)]]

\* A reference outside refs/tags/.
BranchRef == <<"r", "e", "f", "s", "/", "h", "e", "a", "d", "s", "/", "m">>
InitialRefs == [n \in {BranchRef} |-> CommitObj.id]

TagNames == {<<"a">>, <<"b">>}
Targets == {CommitObj, ForeignObj}
SigA == [name |-> <<"A">>, email |-> <<"a", "@", "x">>,
         when |-> [time |-> 12, offset |-> -90]]
Taggers == {SigA}
Messages == {<<"m">>}

\* A tag buffer without tagger and message: the caller's bytes for
\* git_tag_create_frombuffer.
RawTag(target_id, type, tag_name) ==
    git_oid__writebuf(ObjectHeader, target_id)
    \o TypeHeader \o tag_types[type]
    \o TagHeader \o tag_name \o <<NL>>

\* The buffers given to git_tag_create_frombuffer: stored objects under
\* their own type and under another one, a target that is not stored, a
\* second name with tagger and message, and a buffer that does not parse.
Buffers ==
    {RawTag(CommitObj.id, GIT_OBJ_COMMIT, <<"a">>),
     RawTag(CommitObj.id, GIT_OBJ_TAG, <<"a">>),
     RawTag(TreeObj.id, GIT_OBJ_TREE, <<"a">>),
     RawTag(BlobObj.id, GIT_OBJ_COMMIT, <<"a">>),
     RawTag(TagObj.id, GIT_OBJ_TAG, <<"a">>),
     RawTag(MissingOid, GIT_OBJ_COMMIT, <<"a">>),
     tag_annotation_bytes(<<"b">>, CommitObj.id, GIT_OBJ_COMMIT, SigA,
                          <<"m">>),
     ObjectHeader}

\* tag_parse on each of Buffers, evaluated once.
ParsedBuffers == [b \in Buffers |-> tag_parse(b)]

\* tag_parse(buffer), read from ParsedBuffers where it is there.
tag_parse_buffer(buffer) ==
    IF buffer \in DOMAIN ParsedBuffers THEN ParsedBuffers[buffer]
    ELSE tag_parse(buffer)

CreateFaults == {"none", "name_to_id", "odb_write", "reference_create"}
DeleteFaults == {"none", "reference_lookup", "reference_delete"}

(***************************************************************************)
(* The collaborators: the reference store and the object database.         *)
(*                                                                         *)
(* refs is a function from reference names to object ids; odb is a         *)
(* function from object ids to [type, data].  A collaborator call fails    *)
(* with FaultCode when the call's fault argument names it.                 *)
(***************************************************************************)
\* The code a failing collaborator returns (GIT_ELOCKED): negative, and
\* neither GIT_ERROR nor GIT_ENOTFOUND nor GIT_EEXISTS.
FaultCode == -14

\* The most objects the operations may add to the object database.
MaxWrites == 1

\* git_buf_joinpath(out, a, b): b without its leading separators, after a
\* and one separator.
RECURSIVE StripSeparators(_)
StripSeparators(b) ==
    IF b # <<>> /\ b[1] = "/" THEN StripSeparators(Tail(b)) ELSE b

git_buf_joinpath(a, b) ==
    IF a = <<>> THEN b
    ELSE IF a[Len(a)] = "/" THEN a \o StripSeparators(b)
    ELSE a \o <<"/">> \o StripSeparators(b)

\* git__prefixcmp(str, prefix) == 0
HasPrefix(str, prefix) ==
    /\ Len(str) >= Len(prefix)
    /\ SubSeq(str, 1, Len(prefix)) = prefix

\* git_reference_name_to_id(&oid, repo, name)
git_reference_name_to_id(refs, name, fault) ==
    IF fault = "name_to_id" THEN [error |-> FaultCode, oid |-> <<>>]
    ELSE IF name \in DOMAIN refs THEN [error |-> GIT_OK, oid |-> refs[name]]
    ELSE [error |-> GIT_ENOTFOUND, oid |-> <<>>]

\* git_reference_lookup(&ref, repo, name)
git_reference_lookup(refs, name, fault) ==
    IF fault = "reference_lookup" THEN FaultCode
    ELSE IF name \in DOMAIN refs THEN GIT_OK
    ELSE GIT_ENOTFOUND

\* refs with name bound to oid.
Bind(refs, name, oid) ==
    [n \in DOMAIN refs \cup {name} |-> IF n = name THEN oid ELSE refs[n]]

\* git_reference_create(&ref, repo, name, oid, force): atomic; without
\* force it fails with GIT_EEXISTS on an existing reference.
git_reference_create(refs, name, oid, force, fault) ==
    IF fault = "reference_create" THEN [error |-> FaultCode, refs |-> refs]
    ELSE IF name \in DOMAIN refs /\ ~force
    THEN [error |-> GIT_EEXISTS, refs |-> refs]
    ELSE [error |-> GIT_OK, refs |-> Bind(refs, name, oid)]

\* git_reference_delete(ref)
git_reference_delete(refs, name, fault) ==
    IF fault = "reference_delete" THEN [error |-> FaultCode, refs |-> refs]
    ELSE [error |-> GIT_OK,
          refs |-> [n \in DOMAIN refs \ {name} |-> refs[n]]]

\* The id the object database gives the n-th object written to it.  It
\* stands for the hash of the object: one id per content, and no two
\* contents with the same id.
HashOid(n) == [i \in 1..GIT_OID_RAWSZ |-> IF i = GIT_OID_RAWSZ THEN n ELSE 255]

\* git_odb_write(&oid, odb, data, len, type); also the write stream of
\* git_odb_open_wstream / git_odb_stream_write /
\* git_odb_stream_finalize_write.  Content-addressed: writing stored content
\* again gives the id it has.
git_odb_write(odb, data, type, fault) ==
    LET obj == [type |-> type, data |-> data]
        same == {id \in DOMAIN odb : odb[id] = obj}
        new == HashOid(Cardinality(DOMAIN odb))
    IN  IF fault = "odb_write"
        THEN [error |-> FaultCode, oid |-> <<>>, odb |-> odb]
        ELSE IF same # {}
        THEN [error |-> GIT_OK, oid |-> CHOOSE id \in same : TRUE, odb |-> odb]
        ELSE [error |-> GIT_OK, oid |-> new,
              odb |-> [id \in DOMAIN odb \cup {new} |->
                         IF id = new THEN obj ELSE odb[id]]]

\* git_odb_read(&obj, odb, id)
git_odb_read(odb, id) ==
    IF id \in DOMAIN odb THEN [error |-> GIT_OK, type |-> odb[id].type]
    ELSE [error |-> GIT_ENOTFOUND, type |-> GIT_OBJ_BAD]

(***************************************************************************)
(* git_tag_create__internal (tag.c:230), in the three steps between which  *)
(* another writer of the stores can run: the checks up to the name check,  *)
(* the write of the annotation, and the creation of the reference.  A step *)
(* that ends the call has done = TRUE; ret is the value returned, line the *)
(* source line at which the function leaves, and oid what the oid output   *)
(* parameter holds.                                                        *)
(***************************************************************************)
\* retrieve_tag_reference_oid leaving the caller's oid as it was.
tag_reference_oid_unset(ref_name, r) ==
    [error |-> r.error, oid |-> <<>>, ref_name |-> ref_name]

\* retrieve_tag_reference_oid (tag.c:183), with r the result of
\* git_reference_name_to_id.
tag_reference_oid(ref_name, r) ==
    [error |-> r.error, oid |-> r.oid, ref_name |-> ref_name]

retrieve_tag_reference_oid(refs, tag_name, fault) ==
    tag_reference_oid(git_buf_joinpath(GIT_REFS_TAGS_DIR, tag_name),
        git_reference_name_to_id(refs,
            git_buf_joinpath(GIT_REFS_TAGS_DIR, tag_name), fault))

\* The name check without its test of allow_ref_overwrite: an existing tag
\* is refused even when the caller asked to overwrite it.
tag_create_check_name_refusing(allow_ref_overwrite, l) ==
    IF l.error < 0 /\ l.error # GIT_ENOTFOUND
    THEN [done |-> TRUE, ret |-> l.error, line |-> 255, oid |-> l.oid,
          ref_name |-> l.ref_name]
    ELSE IF l.error = 0
    THEN [done |-> TRUE, ret |-> GIT_EEXISTS, line |-> 262, oid |-> l.oid,
          ref_name |-> l.ref_name]
    ELSE [done |-> FALSE, ret |-> l.error, line |-> 0, oid |-> l.oid,
          ref_name |-> l.ref_name]

\* Lines 254-263, with l the result of retrieve_tag_reference_oid.
tag_create_check_name(allow_ref_overwrite, l) ==
    IF l.error < 0 /\ l.error # GIT_ENOTFOUND
    THEN [done |-> TRUE, ret |-> l.error, line |-> 255, oid |-> l.oid,
          ref_name |-> l.ref_name]
    ELSE IF l.error = 0 /\ ~allow_ref_overwrite
    THEN [done |-> TRUE, ret |-> GIT_EEXISTS, line |-> 262, oid |-> l.oid,
          ref_name |-> l.ref_name]
    ELSE [done |-> FALSE, ret |-> l.error, line |-> 0, oid |-> l.oid,
          ref_name |-> l.ref_name]

\* Lines 245-263.
tag_create_check(refs, repo, tag_name, target, allow_ref_overwrite, fault) ==
    IF target.owner # repo
    THEN [done |-> TRUE, ret |-> GIT_ERROR, line |-> 250, oid |-> <<>>,
          ref_name |-> <<>>]
    ELSE tag_create_check_name(allow_ref_overwrite,
             retrieve_tag_reference_oid(refs, tag_name, fault))

\* write_tag_annotation (tag.c:195-228), with w the result of
\* git_odb_write: 0 and the new id, or -1.
tag_annotation_written(odb, w) ==
    IF w.error < 0 THEN [error |-> GIT_ERROR, oid |-> w.oid, odb |-> odb]
    ELSE [error |-> GIT_OK, oid |-> w.oid, odb |-> w.odb]

write_tag_annotation(odb, tag_name, target, tagger, message, fault) ==
    tag_annotation_written(odb,
        git_odb_write(odb,
            tag_annotation_bytes(tag_name, target.id, target.type, tagger,
                                 message),
            GIT_OBJ_TAG, fault))

\* Lines 266-267 without the test of write_tag_annotation's result: the call
\* goes on to create the reference after a failed write.
tag_create_written_unchecked(odb, oid, w) ==
    [done |-> FALSE, ret |-> GIT_OK, line |-> 0, oid |-> w.oid, odb |-> w.odb]

\* Lines 266-267, with w the result of write_tag_annotation.
tag_create_written(odb, oid, w) ==
    IF w.error < 0
    THEN [done |-> TRUE, ret |-> GIT_ERROR, line |-> 267, oid |-> oid,
          odb |-> odb]
    ELSE [done |-> FALSE, ret |-> GIT_OK, line |-> 0, oid |-> w.oid,
          odb |-> w.odb]

\* Lines 265-269 without the git_oid_cpy of line 269: a lightweight tag
\* keeps what the name check left in the output parameter.
tag_create_write_no_copy(odb, oid, tag_name, target, tagger, message, create_tag_annotation, fault) ==
    IF create_tag_annotation
    THEN tag_create_written(odb, oid,
             write_tag_annotation(odb, tag_name, target, tagger[1],
                                  message[1], fault))
    ELSE [done |-> FALSE, ret |-> GIT_OK, line |-> 0, oid |-> oid,
          odb |-> odb]

\* Lines 265-269.  oid is what the name check left in the output parameter.
tag_create_write(odb, oid, tag_name, target, tagger, message, create_tag_annotation, fault) ==
    IF create_tag_annotation
    THEN tag_create_written(odb, oid,
             write_tag_annotation(odb, tag_name, target, tagger[1],
                                  message[1], fault))
    ELSE [done |-> FALSE, ret |-> GIT_OK, line |-> 0, oid |-> target.id,
          odb |-> odb]

\* Lines 271-276, with c the result of git_reference_create.
tag_create_bound(oid, c) ==
    [ret |-> c.error, line |-> 276, oid |-> oid, refs |-> c.refs]

\* Line 271 with force always set: git_reference_create replaces whatever
\* is bound.
tag_create_bind_forced(refs, ref_name, oid, allow_ref_overwrite, fault) ==
    tag_create_bound(oid,
        git_reference_create(refs, ref_name, oid, TRUE, fault))

tag_create_bind(refs, ref_name, oid, allow_ref_overwrite, fault) ==
    tag_create_bound(oid,
        git_reference_create(refs, ref_name, oid, allow_ref_overwrite,
                             fault))

\* What a call leaves: its return value and exit, and the two stores.
Outcome(ret, line, oid, new_refs, new_odb) ==
    [ret |-> ret, line |-> line, oid |-> oid, refs |-> new_refs,
     odb |-> new_odb]

\* The call after its last step, b.
tag_create_after_bind(new_odb, b) ==
    Outcome(b.ret, b.line, b.oid, b.refs, new_odb)

\* The call after its write step, w.
tag_create_after_write(refs, odb, ref_name, allow_ref_overwrite, fault, w) ==
    IF w.done THEN Outcome(w.ret, w.line, w.oid, refs, odb)
    ELSE tag_create_after_bind(w.odb,
             tag_create_bind(refs, ref_name, w.oid, allow_ref_overwrite,
                             fault))

\* The call after its check step, c.
tag_create_after_check(refs, odb, tag_name, target, tagger, message, allow_ref_overwrite, create_tag_annotation, fault, c) ==
    IF c.done THEN Outcome(c.ret, c.line, c.oid, refs, odb)
    ELSE tag_create_after_write(refs, odb, c.ref_name, allow_ref_overwrite,
             fault,
             tag_create_write(odb, c.oid, tag_name, target, tagger, message,
                              create_tag_annotation, fault))

\* The owner test of lines 248-251 made after the reference is created
\* instead of before the name check.
git_tag_create__internal_late_owner_check(refs, odb, repo, tag_name, target, tagger, message, allow_ref_overwrite, create_tag_annotation, fault) ==
    LET r == tag_create_after_check(refs, odb, tag_name, target, tagger,
                 message, allow_ref_overwrite, create_tag_annotation, fault,
                 tag_create_check(refs, target.owner, tag_name, target,
                                  allow_ref_overwrite, fault))
    IN  IF target.owner # repo
        THEN Outcome(GIT_ERROR, 250, r.oid, r.refs, r.odb)
        ELSE r

git_tag_create__internal(refs, odb, repo, tag_name, target, tagger, message, allow_ref_overwrite, create_tag_annotation, fault) ==
    tag_create_after_check(refs, odb, tag_name, target, tagger, message,
        allow_ref_overwrite, create_tag_annotation, fault,
        tag_create_check(refs, repo, tag_name, target, allow_ref_overwrite,
                         fault))

\* git_tag_create (tag.c:279)
git_tag_create(refs, odb, repo, tag_name, target, tagger, message, allow_ref_overwrite, fault) ==
    git_tag_create__internal(refs, odb, repo, tag_name, target, tagger,
                             message, allow_ref_overwrite, TRUE, fault)

\* git_tag_create_lightweight (tag.c:304)
git_tag_create_lightweight(refs, odb, repo, tag_name, target, allow_ref_overwrite, fault) ==
    git_tag_create__internal(refs, odb, repo, tag_name, target, <<>>, <<>>,
                             allow_ref_overwrite, FALSE, fault)

(***************************************************************************)
(* git_tag_create_frombuffer (tag.c:314), in the same three steps.         *)
(***************************************************************************)
FromBufferExit(ret, line, oid) ==
    [done |-> TRUE, ret |-> ret, line |-> line, oid |-> oid,
     ref_name |-> <<>>]

\* Lines 345-360, with l the result of retrieve_tag_reference_oid.
tag_frombuffer_check_name(allow_ref_overwrite, l) ==
    IF l.error < 0 /\ l.error # GIT_ENOTFOUND
    THEN FromBufferExit(GIT_ERROR, 347, l.oid)
    ELSE IF l.error = 0 /\ ~allow_ref_overwrite
    THEN FromBufferExit(GIT_EEXISTS, 359, l.oid)
    ELSE [done |-> FALSE, ret |-> l.error, line |-> 0, oid |-> l.oid,
          ref_name |-> l.ref_name]

\* Lines 336-360 without the comparison of lines 340-343.
tag_frombuffer_check_target_untyped(refs, tag, allow_ref_overwrite, fault, target_obj) ==
    IF target_obj.error < 0 THEN FromBufferExit(GIT_ERROR, 338, <<>>)
    ELSE tag_frombuffer_check_name(allow_ref_overwrite,
             retrieve_tag_reference_oid(refs, tag.tag_name, fault))

\* Lines 336-360, with target_obj the result of git_odb_read.
tag_frombuffer_check_target(refs, tag, allow_ref_overwrite, fault, target_obj) ==
    IF target_obj.error < 0 THEN FromBufferExit(GIT_ERROR, 338, <<>>)
    ELSE IF tag.type # target_obj.type
    THEN FromBufferExit(GIT_ERROR, 342, <<>>)
    ELSE tag_frombuffer_check_name(allow_ref_overwrite,
             retrieve_tag_reference_oid(refs, tag.tag_name, fault))

\* Lines 332-360 with the name looked at before the target.
tag_frombuffer_check_parsed_name_first(refs, odb, allow_ref_overwrite, fault, tag) ==
    IF tag.ret < 0 THEN FromBufferExit(GIT_ERROR, 334, <<>>)
    ELSE IF /\ git_buf_joinpath(GIT_REFS_TAGS_DIR, tag.tag_name) \in DOMAIN refs
            /\ ~allow_ref_overwrite
    THEN FromBufferExit(GIT_EEXISTS, 359,
             refs[git_buf_joinpath(GIT_REFS_TAGS_DIR, tag.tag_name)])
    ELSE tag_frombuffer_check_target(refs, tag, allow_ref_overwrite, fault,
                                     git_odb_read(odb, tag.target))

\* Lines 332-360, with tag the result of tag_parse.
tag_frombuffer_check_parsed(refs, odb, allow_ref_overwrite, fault, tag) ==
    IF tag.ret < 0 THEN FromBufferExit(GIT_ERROR, 334, <<>>)
    ELSE tag_frombuffer_check_target(refs, tag, allow_ref_overwrite, fault,
                                     git_odb_read(odb, tag.target))

\* Lines 327-360: parse, read the target, compare the types, check the name.
tag_frombuffer_check(refs, odb, buffer, allow_ref_overwrite, fault) ==
    tag_frombuffer_check_parsed(refs, odb, allow_ref_overwrite, fault,
                                tag_parse_buffer(buffer))

\* Lines 368-374, with w the result of the write stream.
tag_frombuffer_written(odb, oid, w) ==
    IF w.error < 0
    THEN [done |-> TRUE, ret |-> GIT_ERROR, line |-> 373, oid |-> oid,
          odb |-> odb]
    ELSE [done |-> FALSE, ret |-> GIT_OK, line |-> 0, oid |-> w.oid,
          odb |-> w.odb]

\* Lines 362-374: the buffer itself goes to the object database.
tag_frombuffer_write(odb, oid, buffer, fault) ==
    tag_frombuffer_written(odb, oid,
        git_odb_write(odb, buffer, GIT_OBJ_TAG, fault))

\* Lines 376-381, with c the result of git_reference_create.
tag_frombuffer_bound(oid, c) ==
    [ret |-> c.error, line |-> 381, oid |-> oid, refs |-> c.refs]

tag_frombuffer_bind(refs, ref_name, oid, allow_ref_overwrite, fault) ==
    tag_frombuffer_bound(oid,
        git_reference_create(refs, ref_name, oid, allow_ref_overwrite,
                             fault))

tag_frombuffer_after_write(refs, odb, ref_name, allow_ref_overwrite, fault, w) ==
    IF w.done THEN Outcome(w.ret, w.line, w.oid, refs, odb)
    ELSE tag_create_after_bind(w.odb,
             tag_frombuffer_bind(refs, ref_name, w.oid, allow_ref_overwrite,
                                 fault))

tag_frombuffer_after_check(refs, odb, buffer, allow_ref_overwrite, fault, c) ==
    IF c.done THEN Outcome(c.ret, c.line, c.oid, refs, odb)
    ELSE tag_frombuffer_after_write(refs, odb, c.ref_name,
             allow_ref_overwrite, fault,
             tag_frombuffer_write(odb, c.oid, buffer, fault))

git_tag_create_frombuffer(refs, odb, buffer, allow_ref_overwrite, fault) ==
    tag_frombuffer_after_check(refs, odb, buffer, allow_ref_overwrite, fault,
        tag_frombuffer_check(refs, odb, buffer, allow_ref_overwrite, fault))

(***************************************************************************)
(* git_tag_delete (tag.c:391)                                              *)
(***************************************************************************)
\* retrieve_tag_reference (tag.c:160)
retrieve_tag_reference(refs, tag_name, fault) ==
    [error |-> git_reference_lookup(refs,
                   git_buf_joinpath(GIT_REFS_TAGS_DIR, tag_name), fault),
     ref_name |-> git_buf_joinpath(GIT_REFS_TAGS_DIR, tag_name)]

\* Lines 404-407 with the tag objects no reference names removed from the
\* object database.
tag_deleted_pruning(odb, d) ==
    Outcome(d.error, 407, <<>>, d.refs,
        [id \in {i \in DOMAIN odb :
                    \/ odb[i].type # GIT_OBJ_TAG
                    \/ \E n \in DOMAIN d.refs : d.refs[n] = i} |-> odb[id]])

\* Lines 404-407, with d the result of git_reference_delete.
tag_deleted(odb, d) == Outcome(d.error, 407, <<>>, d.refs, odb)

\* Lines 399-407 with a lookup that found nothing taken for success.
tag_delete_found_lenient(refs, odb, fault, l) ==
    IF l.error < 0 /\ l.error # GIT_ENOTFOUND
    THEN Outcome(l.error, 402, <<>>, refs, odb)
    ELSE tag_deleted(odb, git_reference_delete(refs, l.ref_name, fault))

\* Lines 399-407 deleting every reference under refs/tags/.
tag_delete_found_by_prefix(refs, odb, fault, l) ==
    IF l.error < 0 THEN Outcome(l.error, 402, <<>>, refs, odb)
    ELSE Outcome(GIT_OK, 407, <<>>,
             [n \in {m \in DOMAIN refs : ~HasPrefix(m, GIT_REFS_TAGS_DIR)} |->
                 refs[n]], odb)

\* Lines 399-407, with l the result of retrieve_tag_reference.
tag_delete_found(refs, odb, fault, l) ==
    IF l.error < 0 THEN Outcome(l.error, 402, <<>>, refs, odb)
    ELSE tag_deleted(odb, git_reference_delete(refs, l.ref_name, fault))

git_tag_delete(refs, odb, tag_name, fault) ==
    tag_delete_found(refs, odb, fault,
                     retrieve_tag_reference(refs, tag_name, fault))

(***************************************************************************)
(* git_tag_foreach (tag.c:433) and git_tag_list_match (tag.c:469).         *)
(*                                                                         *)
(* The reference store yields its names in an order of its own: order is a *)
(* sequence of all the names of refs.  A callback is a record: fn names the *)
(* function, and a caller's callback "cb" returns code at the reference    *)
(* stop and 0 at any other.  data is what the call has done so far: calls, *)
(* the <<ref, oid>> pairs the callback was invoked with, and taglist, the  *)
(* vector of tag_list_cb.  The fault of a call is a record: call names the *)
(* collaborator that fails, ref the reference whose resolution fails,      *)
(* after the number of names the enumeration yields before it fails.       *)
(***************************************************************************)
\* p_fnmatch(pattern, string, 0) == 0, for patterns of literal characters,
\* '?' and '*'.
RECURSIVE p_fnmatch(_, _)
p_fnmatch(pattern, string) ==
    IF pattern = <<>> THEN string = <<>>
    ELSE IF pattern[1] = "*"
    THEN \/ p_fnmatch(Tail(pattern), string)
         \/ string # <<>> /\ p_fnmatch(pattern, Tail(string))
    ELSE /\ string # <<>>
         /\ pattern[1] \in {"?", string[1]}
         /\ p_fnmatch(Tail(pattern), Tail(string))

\* strlen(GIT_REFS_TAGS_DIR)
GIT_REFS_TAGS_DIR_LEN == Len(GIT_REFS_TAGS_DIR)

NoFault == [call |-> "none", ref |-> <<>>, after |-> 0]

\* The orders in which the reference store can yield its names.
Orders(store) ==
    {o \in [1..Cardinality(DOMAIN store) -> DOMAIN store] :
        \A n \in DOMAIN store : \E i \in DOMAIN o : o[i] = n}

\* tag_list_cb (tag.c:453) with every pattern, the empty one too, given to
\* p_fnmatch.
tag_list_cb_always_glob(tag_name, filter) ==
    IF p_fnmatch(filter.pattern, SubSeq(tag_name, GIT_REFS_TAGS_DIR_LEN + 1, Len(tag_name)))
    THEN [error |-> GIT_OK,
          taglist |-> Append(filter.taglist,
              SubSeq(tag_name, GIT_REFS_TAGS_DIR_LEN + 1, Len(tag_name)))]
    ELSE [error |-> GIT_OK, taglist |-> filter.taglist]

\* tag_list_cb (tag.c:453): the name after refs/tags/ goes to the end of
\* the vector when the pattern is empty or matches it.
tag_list_cb(tag_name, filter) ==
    IF \/ filter.pattern = <<>>
       \/ p_fnmatch(filter.pattern, SubSeq(tag_name, GIT_REFS_TAGS_DIR_LEN + 1, Len(tag_name)))
    THEN [error |-> GIT_OK,
          taglist |-> Append(filter.taglist,
              SubSeq(tag_name, GIT_REFS_TAGS_DIR_LEN + 1, Len(tag_name)))]
    ELSE [error |-> GIT_OK, taglist |-> filter.taglist]

\* The callback has run on <<ref, oid>> and returned error; taglist is the
\* vector after it.
tag_cb_called(ref, oid, data, error, taglist) ==
    [error |-> error,
     data |-> [calls |-> Append(data.calls, <<ref, oid>>),
               taglist |-> taglist]]

\* tag_list_cb as the callback, with r what it returned.
tag_cb_listed(ref, oid, data, r) ==
    tag_cb_called(ref, oid, data, r.error, r.taglist)

\* d->cb(ref, &oid, d->cb_data) at tag.c:426.
tag_cb(cb, ref, oid, data) ==
    IF cb.fn = "tag_list_cb"
    THEN tag_cb_listed(ref, oid, data,
             tag_list_cb(ref, [taglist |-> data.taglist,
                               pattern |-> cb.pattern]))
    ELSE tag_cb_called(ref, oid, data,
             IF ref = cb.stop THEN cb.code ELSE 0, data.taglist)

\* Lines 425-430 returning 0 whatever the callback returned.
tags_cb_resolved_swallowing(cb, ref, data, r) ==
    IF r.error # 0 THEN [error |-> r.error, data |-> data]
    ELSE [error |-> 0, data |-> tag_cb(cb, ref, r.oid, data).data]

\* Lines 425-430, with r the result of git_reference_name_to_id.
tags_cb_resolved(cb, ref, data, r) ==
    IF r.error # 0 THEN [error |-> r.error, data |-> data]
    ELSE tag_cb(cb, ref, r.oid, data)

\* tags_cb (tag.c:416) taking every reference for a tag.
tags_cb_unfiltered(store, ref, cb, data, fault) ==
    tags_cb_resolved(cb, ref, data,
        git_reference_name_to_id(store, ref,
            IF fault.call = "name_to_id" /\ fault.ref = ref
            THEN "name_to_id" ELSE "none"))

\* tags_cb (tag.c:416)
tags_cb(store, ref, cb, data, fault) ==
    IF ~HasPrefix(ref, GIT_REFS_TAGS_DIR) THEN [error |-> 0, data |-> data]
    ELSE tags_cb_resolved(cb, ref, data,
             git_reference_name_to_id(store, ref,
                 IF fault.call = "name_to_id" /\ fault.ref = ref
                 THEN "name_to_id" ELSE "none"))

\* git_reference_foreach_name(repo, &tags_cb, &data) from the i-th name of
\* order on: it stops at the first callback that returns non-zero and
\* returns what the callback returned.
RECURSIVE reference_foreach_name_from(_, _, _, _, _, _)
RECURSIVE reference_foreach_name_next(_, _, _, _, _, _)
reference_foreach_name_from(store, order, i, cb, fault, data) ==
    IF fault.call = "foreach_name" /\ fault.after = i - 1
    THEN [error |-> FaultCode, data |-> data]
    ELSE IF i > Len(order) THEN [error |-> 0, data |-> data]
    ELSE reference_foreach_name_next(store, order, i, cb, fault,
             tags_cb(store, order[i], cb, data, fault))

reference_foreach_name_next(store, order, i, cb, fault, r) ==
    IF r.error # 0 THEN r
    ELSE reference_foreach_name_from(store, order, i + 1, cb, fault, r.data)

git_reference_foreach_name(store, order, cb, fault) ==
    reference_foreach_name_from(store, order, 1, cb, fault,
                                [calls |-> <<>>, taglist |-> <<>>])

\* git_tag_foreach (tag.c:433)
git_tag_foreach(store, order, cb, fault) ==
    git_reference_foreach_name(store, order, cb, fault)

\* Lines 485-491, with r the result of git_tag_foreach: the vector is freed
\* after a failure, what it holds then is detached into tag_names, and the
\* function returns 0.
tag_list_detach(r) ==
    [ret |-> 0, error |-> r.error, calls |-> r.data.calls,
     tag_names |-> IF r.error < 0 THEN <<>> ELSE r.data.taglist]

\* git_tag_list_match (tag.c:469)
git_tag_list_match(store, order, pattern, fault) ==
    tag_list_detach(git_tag_foreach(store, order,
        [fn |-> "tag_list_cb", pattern |-> pattern], fault))

\* git_tag_list (tag.c:494)
git_tag_list(store, order, fault) ==
    git_tag_list_match(store, order, <<>>, fault)

(***************************************************************************)
(* The state: the two stores, the last call with its outcome, and (for the *)
(* interleaved specification) the calls in progress.                       *)
(***************************************************************************)
VARIABLES refs, odb, last, procs

vars == <<refs, odb, last, procs>>

\* The stores as a call finds them.
Stores == [refs |-> refs, odb |-> odb]

Init ==
    /\ refs = InitialRefs
    /\ odb = InitialOdb
    /\ last = [op |-> "none"]
    /\ procs = <<>>

\* The object database holds at most MaxWrites objects more than at the start.
WithinBound(new_odb) ==
    Cardinality(DOMAIN new_odb) <= Cardinality(DOMAIN InitialOdb) + MaxWrites

\* The fault of a call, when a collaborator failed in it: the call returned
\* the collaborator's code, or left where such a failure is turned into -1.
FaultHit(fault, r) ==
    IF r.ret = FaultCode \/ r.line \in {267, 347, 373} THEN fault ELSE "none"

\* The call returns with outcome r: the stores are as it left them, and last
\* records the call, the stores it found (before) and what it returned.
Returns(call, r) ==
    /\ WithinBound(r.odb)
    /\ refs' = r.refs
    /\ odb' = r.odb
    /\ last' = [call EXCEPT !.fault = FaultHit(call.fault, r),
                            !.ret = r.ret, !.line = r.line, !.oid = r.oid]
    /\ UNCHANGED procs

CreateAnnotated ==
    \E tag_name \in TagNames, target \in Targets, tagger \in Taggers,
       message \in Messages, allow \in BOOLEAN, fault \in CreateFaults :
        Returns([op |-> "git_tag_create", tag_name |-> tag_name,
                 target |-> target, tagger |-> tagger, message |-> message,
                 allow_ref_overwrite |-> allow, fault |-> fault,
                 before |-> Stores, ret |-> 0, line |-> 0, oid |-> <<>>],
                git_tag_create(refs, odb, Repo, tag_name, target,
                               <<tagger>>, <<message>>, allow, fault))

CreateLightweight ==
    \E tag_name \in TagNames, target \in Targets, allow \in BOOLEAN,
       fault \in CreateFaults :
        Returns([op |-> "git_tag_create_lightweight",
                 tag_name |-> tag_name, target |-> target,
                 allow_ref_overwrite |-> allow, fault |-> fault,
                 before |-> Stores, ret |-> 0, line |-> 0, oid |-> <<>>],
                git_tag_create_lightweight(refs, odb, Repo, tag_name,
                                           target, allow, fault))

CreateFromBuffer ==
    \E buffer \in Buffers, allow \in BOOLEAN, fault \in CreateFaults :
        Returns([op |-> "git_tag_create_frombuffer", buffer |-> buffer,
                 allow_ref_overwrite |-> allow, fault |-> fault,
                 before |-> Stores, ret |-> 0, line |-> 0, oid |-> <<>>],
                git_tag_create_frombuffer(refs, odb, buffer, allow, fault))

Delete ==
    \E tag_name \in TagNames, fault \in DeleteFaults :
        Returns([op |-> "git_tag_delete", tag_name |-> tag_name,
                 fault |-> fault, before |-> Stores, ret |-> 0, line |-> 0,
                 oid |-> <<>>],
                git_tag_delete(refs, odb, tag_name, fault))

\* A caller's callback that never stops, and the value with which a
\* caller's callback stops the enumeration (GIT_EUSER).
Continue == [fn |-> "cb", stop |-> <<>>, code |-> 0]
GIT_EUSER == -7

\* The caller's callbacks for an enumeration in order: never stopping, or
\* stopping with one of codes at one of the tag references.
Callbacks(order, codes) ==
    {Continue}
    \cup {[fn |-> "cb", stop |-> order[i], code |-> c] :
            i \in {k \in DOMAIN order : HasPrefix(order[k], GIT_REFS_TAGS_DIR)},
            c \in codes}

\* The faults of an enumeration in order, for the collaborators in failing.
EnumFaults(order, failing) ==
    {NoFault}
    \cup {[call |-> "foreach_name", ref |-> <<>>, after |-> k] :
            k \in IF "foreach_name" \in failing THEN 0..Len(order) ELSE {}}
    \cup {[call |-> "name_to_id", ref |-> order[i], after |-> 0] :
            i \in IF "name_to_id" \in failing
                  THEN {k \in DOMAIN order :
                            HasPrefix(order[k], GIT_REFS_TAGS_DIR)}
                  ELSE {}}

\* The fault of an enumeration that ended with error, when a collaborator
\* failed in it.
EnumFaultHit(fault, error) == IF error = FaultCode THEN fault ELSE NoFault

\* git_tag_list_match returns r; it writes to neither store.
Listed(pattern, order, fault, r) ==
    /\ last' = [op |-> "git_tag_list_match", pattern |-> pattern,
                order |-> order, fault |-> EnumFaultHit(fault, r.error),
                before |-> Stores, ret |-> r.ret, error |-> r.error,
                calls |-> r.calls, tag_names |-> r.tag_names]
    /\ UNCHANGED <<refs, odb, procs>>

\* git_tag_foreach returns r; it writes to neither store.
Visited(cb, order, fault, r) ==
    /\ last' = [op |-> "git_tag_foreach", cb |-> cb, order |-> order,
                fault |-> EnumFaultHit(fault, r.error), before |-> Stores,
                ret |-> r.error, calls |-> r.data.calls]
    /\ UNCHANGED <<refs, odb, procs>>

ListMatch(patterns, failing) ==
    \E order \in Orders(refs) :
        \E pattern \in patterns, fault \in EnumFaults(order, failing) :
            Listed(pattern, order, fault,
                   git_tag_list_match(refs, order, pattern, fault))

ForeachTag(codes, failing) ==
    \E order \in Orders(refs) :
        \E cb \in Callbacks(order, codes),
           fault \in EnumFaults(order, failing) :
            Visited(cb, order, fault, git_tag_foreach(refs, order, cb, fault))

List == ListMatch({<<>>}, {"name_to_id"})

Foreach == ForeachTag({GIT_EUSER}, {})

Next ==
    \/ CreateAnnotated
    \/ CreateLightweight
    \/ CreateFromBuffer
    \/ Delete
    \/ List
    \/ Foreach

Spec == Init /\ [][Next]_vars

(***************************************************************************)
(* Two callers at once.  Each makes one create call; the calls interleave  *)
(* at the three steps of git_tag_create__internal and of                   *)
(* git_tag_create_frombuffer.  No collaborator fails here other than       *)
(* git_reference_create refusing an existing reference.                    *)
(***************************************************************************)
Callers == {1, 2}

RaceNames == {<<"a">>}
RaceTargets == {CommitObj, TagObj}
RaceBuffers == {RawTag(CommitObj.id, GIT_OBJ_COMMIT, <<"a">>),
                RawTag(TreeObj.id, GIT_OBJ_TREE, <<"a">>)}

InitRace ==
    /\ refs = InitialRefs
    /\ odb = InitialOdb
    /\ last = [op |-> "none"]
    /\ procs = [p \in Callers |-> [pc |-> "idle"]]

\* Caller p is at the end of step st of its call.
AfterStep(p, call, st) ==
    procs' = [procs EXCEPT ![p] =
                 [call EXCEPT !.pc = IF st.done THEN "done" ELSE call.pc,
                              !.ret = st.ret, !.line = st.line,
                              !.oid = st.oid]]

\* Caller p enters git_tag_create (annotation = TRUE) or
\* git_tag_create_lightweight and runs up to the name check.
RaceCreateCheck(p) ==
    /\ procs[p].pc = "idle"
    /\ \E tag_name \in RaceNames, target \in RaceTargets,
          message \in Messages, allow \in BOOLEAN, annotation \in BOOLEAN :
           AfterStep(p,
               [pc |-> "checked",
                op |-> IF annotation THEN "git_tag_create"
                       ELSE "git_tag_create_lightweight",
                tag_name |-> tag_name, target |-> target,
                message |-> message, buffer |-> <<>>,
                allow_ref_overwrite |-> allow,
                ret |-> 0, line |-> 0, oid |-> <<>>],
               tag_create_check(refs, Repo, tag_name, target, allow, "none"))
    /\ UNCHANGED <<refs, odb, last>>

\* Caller p enters git_tag_create_frombuffer and runs up to the name check.
RaceFromBufferCheck(p) ==
    /\ procs[p].pc = "idle"
    /\ \E buffer \in RaceBuffers, allow \in BOOLEAN :
           AfterStep(p,
               [pc |-> "checked", op |-> "git_tag_create_frombuffer",
                tag_name |-> tag_parse(buffer).tag_name,
                target |-> CommitObj, message |-> <<>>, buffer |-> buffer,
                allow_ref_overwrite |-> allow,
                ret |-> 0, line |-> 0, oid |-> <<>>],
               tag_frombuffer_check(refs, odb, buffer, allow, "none"))
    /\ UNCHANGED <<refs, odb, last>>

\* The write step w of caller p.
RaceWritten(p, w) ==
    /\ odb' = w.odb
    /\ AfterStep(p, [procs[p] EXCEPT !.pc = "written"], w)
    /\ UNCHANGED <<refs, last>>

\* Caller p writes its object (a lightweight tag writes none).
RaceWrite(p) ==
    /\ procs[p].pc = "checked"
    /\ IF procs[p].op = "git_tag_create_frombuffer"
       THEN RaceWritten(p, tag_frombuffer_write(odb, procs[p].oid,
                                                procs[p].buffer, "none"))
       ELSE RaceWritten(p, tag_create_write(odb, procs[p].oid,
                               procs[p].tag_name, procs[p].target, <<SigA>>,
                               <<procs[p].message>>,
                               procs[p].op = "git_tag_create", "none"))

\* The bind step b of caller p, which ends its call.
RaceBound(p, b) ==
    /\ refs' = b.refs
    /\ procs' = [procs EXCEPT ![p] =
                    [procs[p] EXCEPT !.pc = "done", !.ret = b.ret,
                                     !.line = b.line, !.oid = b.oid]]
    /\ UNCHANGED <<odb, last>>

\* Caller p creates its reference.
RaceBind(p) ==
    /\ procs[p].pc = "written"
    /\ IF procs[p].op = "git_tag_create_frombuffer"
       THEN RaceBound(p, tag_frombuffer_bind(refs,
                git_buf_joinpath(GIT_REFS_TAGS_DIR, procs[p].tag_name),
                procs[p].oid, procs[p].allow_ref_overwrite, "none"))
       ELSE RaceBound(p, tag_create_bind(refs,
                git_buf_joinpath(GIT_REFS_TAGS_DIR, procs[p].tag_name),
                procs[p].oid, procs[p].allow_ref_overwrite, "none"))

NextRace ==
    \E p \in Callers :
        \/ RaceCreateCheck(p)
        \/ RaceFromBufferCheck(p)
        \/ RaceWrite(p)
        \/ RaceBind(p)

SpecRace == InitRace /\ [][NextRace]_vars

(***************************************************************************)
(* tag_parse on its own: buffers made of well-formed fields, whole, cut    *)
(* short inside a field, or with one byte of a field's marker or           *)
(* terminator replaced.                                                    *)
(***************************************************************************)
ParseTypes == DOMAIN tag_types
ParseTaggers == {<<>>, <<SigA>>}

\* What follows the tagger line (or the name line): nothing, the separator
\* alone, or the separator and a message.
ParseTails == {<<>>, <<NL>>, <<NL, "m">>, <<NL, "m", NL, NL, "x">>}

\* The byte a damaged buffer holds in place of the right one.
Garbage == "#"

FieldNames == <<"object", "type", "tag", "tagger", "message">>

\* The bytes of each field of a buffer, in the order of FieldNames.
FieldBytes(type, tagger, tail) ==
    <<git_oid__writebuf(ObjectHeader, CommitObj.id),
      TypeHeader \o tag_types[type],
      TagHeader \o <<"v", NL>>,
      IF tagger = <<>> THEN <<>>
      ELSE git_signature__writebuf(TaggerHeader, tagger[1]),
      tail>>

\* The marker each field starts with.
FieldMarkers == <<ObjectHeader, TypeHeader, TagHeader, TaggerHeader, <<NL>>>>

RECURSIVE Concat(_)
Concat(seqs) == IF seqs = <<>> THEN <<>> ELSE Head(seqs) \o Concat(Tail(seqs))

\* The number of bytes before field k.
FieldOffset(f, k) == Len(Concat(SubSeq(f, 1, k - 1)))

\* The parse of buffer, with how the buffer was made.
Parsed(type, tagger, tail, damage, field, at, buffer) ==
    /\ last' = [op |-> "tag_parse", type |-> type, tagger |-> tagger,
                tail |-> tail, damage |-> damage, field |-> field,
                at |-> at, buffer |-> buffer, tag |-> tag_parse(buffer)]
    /\ UNCHANGED <<refs, odb, procs>>

\* No parse has been made: a behaviour is one call of tag_parse.
Unparsed == last.op = "none"

\* A buffer of well-formed fields.
ParseWhole ==
    /\ Unparsed
    /\ \E type \in ParseTypes, tagger \in ParseTaggers, tail \in ParseTails :
        Parsed(type, tagger, tail, "none", "none", 0,
               Concat(FieldBytes(type, tagger, tail)))

\* The first at bytes of such a buffer, the cut falling inside field k: at
\* its start (the field is missing) or before its last byte.  A missing
\* tagger line is no damage, so of the tagger at least one byte is there.
CutInField(f, k, at) ==
    /\ f[k] # <<>>
    /\ at >= FieldOffset(f, k) + (IF k = 4 THEN 1 ELSE 0)
    /\ at < FieldOffset(f, k) + Len(f[k])

ParseTruncated ==
    /\ Unparsed
    /\ \E type \in ParseTypes, tagger \in ParseTaggers, tail \in ParseTails,
       k \in 1..4 :
        \E at \in 0..Len(Concat(FieldBytes(type, tagger, tail))) :
            /\ CutInField(FieldBytes(type, tagger, tail), k, at)
            /\ Parsed(type, tagger, tail, "truncated", FieldNames[k], at,
                      SubSeq(Concat(FieldBytes(type, tagger, tail)), 1, at))

\* Byte at of field k is part of the field's marker, or is the newline that
\* ends a field of fixed text (object, type).  The separator counts as
\* damaged only after a tagger line: without one, a byte that is no newline
\* starts a tagger line.
DamageInField(f, k, at) ==
    /\ f[k] # <<>>
    /\ k = 5 => f[4] # <<>>
    /\ \/ at \in (FieldOffset(f, k) + 1)..(FieldOffset(f, k)
                                           + Len(FieldMarkers[k]))
       \/ k \in {1, 2} /\ at = FieldOffset(f, k) + Len(f[k])

ParseCorrupted ==
    /\ Unparsed
    /\ \E type \in ParseTypes, tagger \in ParseTaggers, tail \in ParseTails,
       k \in 1..5 :
        \E at \in 1..Len(Concat(FieldBytes(type, tagger, tail))) :
            /\ DamageInField(FieldBytes(type, tagger, tail), k, at)
            /\ Parsed(type, tagger, tail, "corrupted", FieldNames[k], at,
                      [Concat(FieldBytes(type, tagger, tail))
                           EXCEPT ![at] = Garbage])

NextParse ==
    \/ ParseWhole
    \/ ParseTruncated
    \/ ParseCorrupted

SpecParse == Init /\ [][NextParse]_vars

\* The error kind of a failed parse, by the place tag_parse leaves at.
tag_error_kind(line) ==
    CASE line = 79 -> "InvalidObjectField"
      [] line \in {82, 85, 94, 104} -> "InvalidTypeField"
      [] line \in {107, 110, 116} -> "InvalidTagField"
      [] line = 132 -> "InvalidTaggerField"
      [] line = 138 -> "MissingMessageSeparator"
      [] OTHER -> "none"

(***************************************************************************)
(* tag_parse on buffers put together from lines.  A behaviour is one call: *)
(* on the object, type and tag lines followed by a tagger line (a valid    *)
(* one, none, or a line that is no signature) and by further bytes; or on  *)
(* the lines of a well-formed buffer in another order.                     *)
(***************************************************************************)
\* The tag names: the empty one too.
LineNames == {<<>>, <<"v">>}

\* Lines that are not a tagger line: one without the marker, one whose
\* signature has no email, one that starts like the tag line.
BadTaggerLines ==
    {<<"m", NL>>, TaggerHeader \o <<"A", NL>>, TagHeader \o <<"w", NL>>}

\* What stands where the tagger line may stand: nothing, the line of SigA,
\* or one of BadTaggerLines.
TaggerLines ==
    {<<>>, git_signature__writebuf(TaggerHeader, SigA)} \cup BadTaggerLines

\* What follows: nothing, the separator alone or with a message, and bytes
\* without the separator.
LineRests ==
    {<<>>, <<NL>>, <<NL, "m">>, <<"m">>, <<"m", NL, "x">>,
     TaggerHeader \o <<"B", NL>>}

\* The object, type and tag lines of a buffer.
HeaderLines(type, tag_name) ==
    <<git_oid__writebuf(ObjectHeader, CommitObj.id),
      TypeHeader \o tag_types[type],
      TagHeader \o tag_name \o <<NL>>>>

\* The ways to put n lines in a row.
Arrangements(n) ==
    {a \in [1..n -> 1..n] : \A i, j \in 1..n : a[i] = a[j] => i = j}

\* The parse of buffer, with the lines it was put together from.
ParsedLines(type, tag_name, tagger_line, rest, arrangement, buffer) ==
    /\ last' = [op |-> "tag_parse", type |-> type, tag_name |-> tag_name,
                tagger_line |-> tagger_line, rest |-> rest,
                arrangement |-> arrangement, buffer |-> buffer,
                tag |-> tag_parse(buffer)]
    /\ UNCHANGED <<refs, odb, procs>>

\* The lines in the order of the format.
ParseInOrder ==
    /\ Unparsed
    /\ \E type \in ParseTypes, tag_name \in LineNames,
          tagger_line \in TaggerLines, rest \in LineRests :
        ParsedLines(type, tag_name, tagger_line, rest, <<1, 2, 3, 4>>,
                    Concat(HeaderLines(type, tag_name)) \o tagger_line
                        \o rest)

\* The object, type, tag and tagger lines in an order arrangement gives.
ParseOutOfOrder ==
    /\ Unparsed
    /\ \E type \in ParseTypes, tag_name \in LineNames,
          rest \in {<<>>, <<NL, "m">>}, n \in {3, 4} :
        \E arrangement \in Arrangements(n) :
            ParsedLines(type, tag_name,
                git_signature__writebuf(TaggerHeader, SigA), rest,
                arrangement,
                Concat([i \in 1..n |->
                    (HeaderLines(type, tag_name)
                     \o <<git_signature__writebuf(TaggerHeader, SigA)>>)
                        [arrangement[i]]]) \o rest)

NextLines ==
    \/ ParseInOrder
    \/ ParseOutOfOrder

SpecLines == Init /\ [][NextLines]_vars

(***************************************************************************)
(* Writing an annotation and reading it back: git_tag_annotation_create    *)
(* (tag.c:291) stores the bytes of write_tag_annotation, and git_tag__parse *)
(* (tag.c:151) parses the stored object.                                   *)
(***************************************************************************)
\* How the library was built: with assertions, or with NDEBUG.
Builds == {"debug", "NDEBUG"}

\* git_tag_annotation_create.  Without tagger or message the assertion of
\* line 299 stops a debug build; an NDEBUG build reads through the NULL
\* pointer in git_signature__writebuf or git_buf_puts.  Either way the
\* process stops, and nothing is written.
git_tag_annotation_create(objects, tag_name, target, tagger, message, build) ==
    IF tagger = <<>> \/ message = <<>>
    THEN [stopped |-> IF build = "debug" THEN "assert" ELSE "null read",
          error |-> GIT_ERROR, oid |-> <<>>, odb |-> objects]
    ELSE [stopped |-> "no"]
         @@ write_tag_annotation(objects, tag_name, target, tagger[1],
                                 message[1], "none")

\* git_tag__parse (tag.c:151) on the object a stored.
git_tag__parse(a) ==
    IF a.stopped # "no" THEN tag_error("", 0)
    ELSE tag_parse(a.odb[a.oid].data)

RoundTripNames == {<<"v">>, <<"v", "1", ".", "0">>, <<"a", " ", "b">>}
SigB == [name |-> <<"B", " ", "b">>, email |-> <<"b", "@", "y">>,
         when |-> [time |-> 0, offset |-> 60]]
RoundTripTaggers == {<<>>, <<SigA>>, <<SigB>>}
RoundTripMessages ==
    {<<>>, << <<>> >>, << <<"m">> >>, << <<"m", NL, NL, "x">> >>}

\* The fields go through a, the result of git_tag_annotation_create, and
\* come back as the parse of what it stored.
WrittenAndParsed(tag_name, target, tagger, message, build, a) ==
    /\ odb' = a.odb
    /\ last' = [op |-> "round_trip", tag_name |-> tag_name,
                target |-> target, tagger |-> tagger, message |-> message,
                build |-> IF a.stopped = "no" THEN "any" ELSE build,
                stopped |-> a.stopped, oid |-> a.oid,
                tag |-> git_tag__parse(a)]
    /\ UNCHANGED <<refs, procs>>

\* One round trip of a behaviour.
RoundTrip ==
    /\ last.op = "none"
    /\ \E tag_name \in RoundTripNames, target \in InitialObjects,
          tagger \in RoundTripTaggers, message \in RoundTripMessages,
          build \in Builds :
           WrittenAndParsed(tag_name, target, tagger, message, build,
               git_tag_annotation_create(odb, tag_name, target, tagger,
                                         message, build))

SpecRoundTrip == Init /\ [][RoundTrip]_vars

(***************************************************************************)
(* Enumerations of a store of tags.  A behaviour creates lightweight tags  *)
(* of the names of CatalogNames, some with a dot and some without, and     *)
(* then makes one call of git_tag_list_match or git_tag_foreach, in which  *)
(* the enumeration or the resolution of one tag may fail.                  *)
(***************************************************************************)
CatalogNames == {<<"v", "1">>, <<"v", "1", ".", "0">>, <<"v", "2", ".", "0">>}
CatalogTargets == {CommitObj, TreeObj}

\* The patterns: empty, one wildcard, two wildcards of both kinds, two
\* stars, and one that no name matches.
CatalogPatterns ==
    {<<>>, <<"v", "1", ".", "*">>, <<"v", "?", ".", "*">>, <<"*", "1", "*">>,
     <<"x", "*">>}

\* The values with which the caller's callback stops: an error code and a
\* positive value.
StopCodes == {GIT_EUSER, 1}

\* No enumeration has been made.
Unlisted == last.op \notin {"git_tag_list_match", "git_tag_foreach"}

CatalogTag ==
    /\ Unlisted
    /\ \E tag_name \in CatalogNames, target \in CatalogTargets :
        Returns([op |-> "git_tag_create_lightweight",
                 tag_name |-> tag_name, target |-> target,
                 allow_ref_overwrite |-> FALSE, fault |-> "none",
                 before |-> Stores, ret |-> 0, line |-> 0, oid |-> <<>>],
                git_tag_create_lightweight(refs, odb, Repo, tag_name,
                                           target, FALSE, "none"))

CatalogList ==
    /\ Unlisted
    /\ ListMatch(CatalogPatterns, {"foreach_name", "name_to_id"})

CatalogForeach ==
    /\ Unlisted
    /\ ForeachTag(StopCodes, {"foreach_name", "name_to_id"})

NextCatalog ==
    \/ CatalogTag
    \/ CatalogList
    \/ CatalogForeach

SpecCatalog == Init /\ [][NextCatalog]_vars

(***************************************************************************)
(* Properties of the create and delete operations, over Spec.              *)
(***************************************************************************)
\* refs/tags/<tag_name>
TagRef(tag_name) == git_buf_joinpath(GIT_REFS_TAGS_DIR, tag_name)

LastIsCreate == last.op \in {"git_tag_create", "git_tag_create_lightweight"}

LastIsAnyCreate ==
    last.op \in {"git_tag_create", "git_tag_create_lightweight",
                 "git_tag_create_frombuffer"}

\* The reference the last create or delete call names.
LastRef == TagRef(last.tag_name)

BoundBefore == LastRef \in DOMAIN last.before.refs

StoresUnchanged == refs = last.before.refs /\ odb = last.before.odb

\* What the overwrite invariant promises of a call for a bound name.
OverwriteOutcome ==
    IF ~last.allow_ref_overwrite
    THEN /\ last.ret = GIT_EEXISTS
         /\ LastRef \in DOMAIN refs
         /\ refs[LastRef] = last.before.refs[LastRef]
    ELSE /\ last.ret = GIT_OK
         /\ LastRef \in DOMAIN refs
         /\ refs[LastRef] = last.oid
         /\ IF last.op = "git_tag_create"
            THEN /\ last.oid \in DOMAIN odb
                 /\ odb[last.oid] =
                        [type |-> GIT_OBJ_TAG,
                         data |-> tag_annotation_bytes(last.tag_name,
                                      last.target.id, last.target.type,
                                      last.tagger, last.message)]
            ELSE last.oid = last.target.id

\* C1, as amended: when refs/tags/<name> is bound, the target belongs to the
\* repository and no collaborator call fails, git_tag_create and
\* git_tag_create_lightweight with allow_ref_overwrite = 0 return GIT_EEXISTS
\* and leave the binding as it was; with allow_ref_overwrite = 1 they return
\* 0 and the binding is the new id (of the tag object written, or of the
\* target for a lightweight tag).  For a target of another repository they
\* return -1 from the owner test (line 250) and change nothing, whatever
\* allow_ref_overwrite is.
OverwriteInvariant ==
    /\ (/\ LastIsCreate
        /\ last.fault = "none"
        /\ last.target.owner = Repo
        /\ BoundBefore)
       => OverwriteOutcome
    /\ (LastIsCreate /\ last.target.owner # Repo)
       => /\ last.ret = GIT_ERROR
          /\ last.line = 250
          /\ StoresUnchanged

\* A bound name was overwritten with a newly written tag object.
OverwriteInvariantWitness ==
    /\ last.op = "git_tag_create"
    /\ last.fault = "none"
    /\ last.target.owner = Repo
    /\ BoundBefore
    /\ last.allow_ref_overwrite
    /\ last.ret = GIT_OK
    /\ refs[LastRef] # last.before.refs[LastRef]

\* C1 as stated, for any target: when refs/tags/<name> is bound (and no
\* collaborator call fails), the call returns GIT_EEXISTS without overwrite
\* and succeeds with it.
OverwriteInvariantAnyTarget ==
    (/\ LastIsCreate
     /\ last.fault = "none"
     /\ BoundBefore)
    => OverwriteOutcome

\* The result of tag_parse on the buffer of the last call.
LastParsed == tag_parse_buffer(last.buffer)

\* C3: git_tag_create_frombuffer fails at the type comparison (line 342)
\* whenever the type the buffer declares differs from the type of the stored
\* object its target names, for every stored object and every other type, and
\* at git_odb_read (line 338) when no object has that id; in both cases the
\* object database and the reference store are as before the call.
TypeConsistency ==
    /\ (last.op = "git_tag_create_frombuffer" /\ LastParsed.ret = GIT_OK)
       => /\ LastParsed.target \notin DOMAIN last.before.odb
             => /\ last.ret = GIT_ERROR
                /\ last.line = 338
                /\ StoresUnchanged
          /\ (/\ LastParsed.target \in DOMAIN last.before.odb
              /\ last.before.odb[LastParsed.target].type # LastParsed.type)
             => /\ last.ret = GIT_ERROR
                /\ last.line = 342
                /\ StoresUnchanged
    /\ \A o \in InitialObjects, type \in DOMAIN tag_types, allow \in BOOLEAN :
          type # o.type
          => git_tag_create_frombuffer(refs, odb, RawTag(o.id, type, <<"a">>),
                                       allow, "none")
             = Outcome(GIT_ERROR, 342, <<>>, refs, odb)

\* A buffer declaring a tag for a stored commit was refused while the name it
\* carries was already a tag.
TypeConsistencyWitness ==
    /\ last.op = "git_tag_create_frombuffer"
    /\ last.line = 342
    /\ LastParsed.type = GIT_OBJ_TAG
    /\ last.before.odb[LastParsed.target].type = GIT_OBJ_COMMIT
    /\ TagRef(LastParsed.tag_name) \in DOMAIN refs

\* The last call failed one of the validations: the owner test of
\* git_tag_create__internal (line 250), or the read of the target (line 338)
\* or the type comparison (line 342) of git_tag_create_frombuffer.
ValidationError ==
    \/ LastIsCreate /\ last.line = 250
    \/ last.op = "git_tag_create_frombuffer" /\ last.line \in {338, 342}

\* C4: a create call that fails a validation leaves the reference store
\* exactly as it was before the call.
ValidationLeavesRefs == ValidationError => refs = last.before.refs

\* A target of another repository was refused in a repository with tags.
ValidationLeavesRefsWitness ==
    /\ LastIsCreate
    /\ last.line = 250
    /\ last.ret = GIT_ERROR
    /\ TagRef(<<"b">>) \in DOMAIN refs

\* What git_tag_list leaves in tag_names when the store yields its names in
\* order.
ListedNames(store, order) == git_tag_list(store, order, NoFault).tag_names

\* C5: when no collaborator call fails, git_tag_delete of a name without a
\* reference returns GIT_ENOTFOUND and changes nothing; of a bound name it
\* returns 0 and removes that reference and no other, every other reference
\* keeps its binding, and git_tag_list no longer holds the name.
DeleteOutcome ==
    (last.op = "git_tag_delete" /\ last.fault = "none")
    => IF ~BoundBefore
       THEN last.ret = GIT_ENOTFOUND /\ StoresUnchanged
       ELSE /\ last.ret = GIT_OK
            /\ DOMAIN refs = DOMAIN last.before.refs \ {LastRef}
            /\ \A n \in DOMAIN refs : refs[n] = last.before.refs[n]
            /\ \A order \in Orders(refs) :
                   \A i \in DOMAIN ListedNames(refs, order) :
                       ListedNames(refs, order)[i] # last.tag_name

\* One of two tags was deleted.
DeleteOutcomeWitness ==
    /\ last.op = "git_tag_delete"
    /\ last.fault = "none"
    /\ BoundBefore
    /\ last.ret = GIT_OK
    /\ \E order \in Orders(last.before.refs) :
           ListedNames(last.before.refs, order) = <<<<"a">>, <<"b">>>>
    /\ \A order \in Orders(refs) : Len(ListedNames(refs, order)) = 1

\* The call left one new object, a tag that no reference names, and nothing
\* else new in the object database.
LeftUnreferencedTag ==
    \E id \in DOMAIN odb \ DOMAIN last.before.odb :
        /\ DOMAIN odb = DOMAIN last.before.odb \cup {id}
        /\ odb[id].type = GIT_OBJ_TAG
        /\ \A n \in DOMAIN refs : refs[n] # id
        /\ \A i \in DOMAIN last.before.odb : odb[i] = last.before.odb[i]

\* C6: a git_tag_create that returns 0 gives the id of a tag object in the
\* object database, and refs/tags/<name> is bound to that id; a create call
\* that fails leaves the reference store as it was, and the object database
\* too unless the failure is that of git_reference_create (lines 276, 381),
\* after which one unreferenced tag object may remain.
CreateAllOrNothing ==
    /\ (last.op = "git_tag_create" /\ last.ret = GIT_OK)
       => /\ last.oid \in DOMAIN odb
          /\ odb[last.oid].type = GIT_OBJ_TAG
          /\ LastRef \in DOMAIN refs
          /\ refs[LastRef] = last.oid
    /\ (LastIsAnyCreate /\ last.ret # GIT_OK)
       => /\ refs = last.before.refs
          /\ \/ odb = last.before.odb
             \/ last.line \in {276, 381} /\ LeftUnreferencedTag

\* git_reference_create failed after the tag object was written.
CreateAllOrNothingWitness ==
    /\ last.op = "git_tag_create"
    /\ last.ret < 0
    /\ last.line = 276
    /\ odb # last.before.odb
    /\ refs = last.before.refs

\* C7: git_tag_create_lightweight leaves the object database as it was, and
\* when it returns 0, refs/tags/<name> is bound to the id of the target,
\* which is also the id it gives back.
LightweightWritesNothing ==
    last.op = "git_tag_create_lightweight"
    => /\ odb = last.before.odb
       /\ last.ret = GIT_OK
          => /\ LastRef \in DOMAIN refs
             /\ refs[LastRef] = last.target.id
             /\ last.oid = last.target.id

\* A lightweight tag replaced an annotated one.
LightweightWritesNothingWitness ==
    /\ last.op = "git_tag_create_lightweight"
    /\ last.ret = GIT_OK
    /\ BoundBefore
    /\ last.before.refs[LastRef] \notin DOMAIN InitialOdb
    /\ refs[LastRef] = CommitObj.id

(***************************************************************************)
(* Two creators of one name, over SpecRace.                                *)
(***************************************************************************)
\* Caller p has made its call without allow_ref_overwrite.
NoOverwrite(p) == procs[p].pc # "idle" /\ ~procs[p].allow_ref_overwrite

\* Caller p passed the name check and went on to git_reference_create.
ReachedBind(p) ==
    procs[p].pc = "done" /\ procs[p].line \in {276, 381}

\* C2: when two create calls for the same unbound name, both without
\* allow_ref_overwrite, both pass the name check before either creates the
\* reference, exactly one returns 0, the other fails with GIT_EEXISTS, and
\* refs/tags/<name> is bound to the id of the one that returned 0; and once
\* a caller without allow_ref_overwrite has returned 0, a second caller
\* without it never replaces that binding.
RaceOneWinner ==
    /\ (\A p \in Callers : NoOverwrite(p) /\ ReachedBind(p))
       => \E w \in Callers :
              /\ procs[w].ret = GIT_OK
              /\ \A q \in Callers \ {w} : procs[q].ret = GIT_EEXISTS
              /\ refs[TagRef(procs[w].tag_name)] = procs[w].oid
    /\ \A p \in Callers :
          (/\ \A q \in Callers : NoOverwrite(q)
           /\ procs[p].pc = "done"
           /\ procs[p].ret = GIT_OK)
          => refs[TagRef(procs[p].tag_name)] = procs[p].oid

\* Both callers passed the name check; the first returned 0 and the second,
\* which had written another object, GIT_EEXISTS.
RaceOneWinnerWitness ==
    /\ \A p \in Callers : NoOverwrite(p) /\ ReachedBind(p)
    /\ procs[1].ret = GIT_OK
    /\ procs[2].ret = GIT_EEXISTS
    /\ procs[1].oid # procs[2].oid
    /\ procs[2].oid \in DOMAIN odb
    /\ refs[TagRef(procs[1].tag_name)] = procs[1].oid

(***************************************************************************)
(* Properties of tag_parse, over SpecParse.                                *)
(***************************************************************************)
\* C8: a buffer of well-formed fields that ends right after the newline of
\* the tagger line (or of the name line, without tagger) parses with the
\* message NULL; one that ends with the separator parses with the message
\* present and empty; one with bytes after the separator parses with exactly
\* those bytes as its message.
MessagePresence ==
    (last.op = "tag_parse" /\ last.damage = "none")
    => /\ last.tag.ret = GIT_OK
       /\ last.tag.tagger = last.tagger
       /\ last.tag.message = IF last.tail = <<>> THEN <<>>
                             ELSE <<Tail(last.tail)>>

\* Without a tagger line, the separator alone gave an empty message.
MessagePresenceWitness ==
    /\ last.op = "tag_parse"
    /\ last.damage = "none"
    /\ last.tagger = <<>>
    /\ last.tail = <<NL>>
    /\ last.tag.ret = GIT_OK
    /\ last.tag.message = << <<>> >>

\* The error kind that belongs to a field.
FieldErrorKind(field) ==
    CASE field = "object" -> "InvalidObjectField"
      [] field = "type" -> "InvalidTypeField"
      [] field = "tag" -> "InvalidTagField"
      [] field = "tagger" -> "InvalidTaggerField"
      [] field = "message" -> "MissingMessageSeparator"

\* The buffer of the last parse is cut inside the tag field with at most 7
\* bytes after "type ": the first round of the loop over tag_types finds it
\* too short (line 93).
CutShortOfTypeLoop ==
    /\ last.damage = "truncated"
    /\ last.field = "tag"
    /\ last.at - (Len(ObjectHeader) + GIT_OID_HEXSZ + 1 + Len(TypeHeader))
           <= Len(tag_types[GIT_OBJ_COMMIT])

FieldsComeBack ==
    /\ last.stopped = "no"
    /\ last.tag.ret = GIT_OK
    /\ last.tag.target = last.target.id
    /\ last.tag.type = last.target.type
    /\ last.tag.tag_name = last.tag_name
    /\ last.tag.tagger = last.tagger
    /\ last.tag.message = last.message

\* C9, as amended: for a target id, a type among commit, tree, blob and tag,
\* a name without newline, a tagger and a message (which may be empty), the
\* parse of the bytes the writer produces gives exactly these fields, tagger
\* and message present.  Without a tagger or without a message the writer
\* stops the process and stores nothing.
RoundTripHolds ==
    /\ (last.op = "round_trip" /\ last.tagger # <<>> /\ last.message # <<>>)
       => FieldsComeBack
    /\ (last.op = "round_trip" /\ (last.tagger = <<>> \/ last.message = <<>>))
       => /\ last.stopped \in {"assert", "null read"}
          /\ odb = InitialOdb

\* An empty message came back present and empty.
RoundTripHoldsWitness ==
    /\ last.op = "round_trip"
    /\ last.tagger = <<SigB>>
    /\ last.message = << <<>> >>
    /\ last.target = TagObj
    /\ FieldsComeBack

\* C9 as stated: the round trip holds with the tagger and the message
\* present or absent.
RoundTripOptionalFields == last.op = "round_trip" => FieldsComeBack


(***************************************************************************)
(* Properties of git_tag_list_match and git_tag_foreach, over SpecCatalog. *)
(***************************************************************************)
IsTagRef(ref) == HasPrefix(ref, GIT_REFS_TAGS_DIR)

\* The names of CatalogNames each pattern of CatalogPatterns matches, as
\* shell wildcards match.
Globbed ==
    [pattern \in CatalogPatterns |->
        CASE pattern = <<>> -> {}
          [] pattern = <<"v", "1", ".", "*">> -> {<<"v", "1", ".", "0">>}
          [] pattern = <<"v", "?", ".", "*">> ->
                {<<"v", "1", ".", "0">>, <<"v", "2", ".", "0">>}
          [] pattern = <<"*", "1", "*">> ->
                {<<"v", "1">>, <<"v", "1", ".", "0">>}
          [] pattern = <<"x", "*">> -> {}]

\* The tag reference ref is one the list for pattern is to hold.
Wanted(pattern, ref) ==
    /\ IsTagRef(ref)
    /\ \/ pattern = <<>>
       \/ \E name \in Globbed[pattern] : ref = TagRef(name)

\* The references of order the list for pattern is to hold, in order.
WantedRefs(pattern, order) ==
    LET Keep(ref) == Wanted(pattern, ref) IN SelectSeq(order, Keep)

\* C11: when the enumeration does not fail, git_tag_list_match returns 0
\* and leaves in tag_names the names, without refs/tags/, of the tag
\* references of the store that the pattern matches (all of them for the
\* empty pattern), one entry per reference, in the order in which the store
\* yields them, and nothing else.
GlobFilter ==
    (last.op = "git_tag_list_match" /\ last.error = 0)
    => /\ last.ret = 0
       /\ {last.order[i] : i \in DOMAIN last.order} = DOMAIN refs
       /\ [i \in DOMAIN last.tag_names |->
              GIT_REFS_TAGS_DIR \o last.tag_names[i]]
          = WantedRefs(last.pattern, last.order)

\* Of three tags the pattern with two wildcards keeps two, which the store
\* yields last of the three and with the branch between them.
GlobFilterWitness ==
    /\ last.op = "git_tag_list_match"
    /\ last.error = 0
    /\ last.pattern = <<"v", "?", ".", "*">>
    /\ last.order = <<TagRef(<<"v", "1">>), TagRef(<<"v", "2", ".", "0">>),
                      BranchRef, TagRef(<<"v", "1", ".", "0">>)>>
    /\ last.tag_names = <<<<"v", "2", ".", "0">>, <<"v", "1", ".", "0">>>>

\* C12: a git_tag_list_match in which the enumeration of the reference
\* store, or the resolution of a tag reference, fails returns the code of
\* that failure, and so never 0.
ListReturnsFailure ==
    (last.op = "git_tag_list_match" /\ last.fault.call # "none")
    => /\ last.ret = last.error
       /\ last.ret = FaultCode

\* The references the callback of the last enumeration was invoked with,
\* in the order of the invocations.
VisitedRefs == [i \in DOMAIN last.calls |-> last.calls[i][1]]

\* The tag references of order up to and including ref.
TagRefsUpTo(order, ref) ==
    LET at == CHOOSE i \in DOMAIN order : order[i] = ref
    IN  SelectSeq(SubSeq(order, 1, at), IsTagRef)

\* The callback of the last git_tag_foreach was invoked with the reference
\* at which it stops.
StopSignalled ==
    /\ last.op = "git_tag_foreach"
    /\ \E i \in DOMAIN last.calls : last.calls[i][1] = last.cb.stop

\* C13: when the callback of git_tag_foreach returns a non-zero value for a
\* tag reference, that invocation is the last one (the callback has been
\* invoked with the tag references the store yielded up to that one, and
\* with none after it), and git_tag_foreach returns the value the callback
\* returned, which is neither 0 nor the code of a failed collaborator.
ForeachAbort ==
    StopSignalled
    => /\ last.ret = last.cb.code
       /\ last.ret \notin {0, FaultCode}
       /\ VisitedRefs = TagRefsUpTo(last.order, last.cb.stop)
       /\ VisitedRefs[Len(VisitedRefs)] = last.cb.stop

\* The callback stops with 1 at the second of three tags: it has been
\* invoked twice and git_tag_foreach returns 1.
ForeachAbortWitness ==
    /\ StopSignalled
    /\ last.cb.code = 1
    /\ last.ret = 1
    /\ Len(SelectSeq(last.order, IsTagRef)) = 3
    /\ Len(last.calls) = 2

\* C16: git_tag_foreach invokes its callback only with references under
\* refs/tags/, each time with the full name of the reference and the id the
\* reference is bound to; and when it returns 0 (no callback stopped it and
\* no collaborator failed) it has invoked the callback exactly once for
\* every such reference of the store, in the order the store yielded them.
ForeachVisitsTags ==
    last.op = "git_tag_foreach"
    => /\ \A i \in DOMAIN last.calls :
            /\ IsTagRef(last.calls[i][1])
            /\ last.calls[i][1] \in DOMAIN refs
            /\ last.calls[i][2] = refs[last.calls[i][1]]
       /\ \A i, j \in DOMAIN last.calls :
            last.calls[i][1] = last.calls[j][1] => i = j
       /\ last.ret = 0
          => /\ VisitedRefs = SelectSeq(last.order, IsTagRef)
             /\ {VisitedRefs[i] : i \in DOMAIN VisitedRefs}
                = {n \in DOMAIN refs : IsTagRef(n)}

\* Three tags, bound to two different ids, and the branch yielded first:
\* three invocations.
ForeachVisitsTagsWitness ==
    /\ last.op = "git_tag_foreach"
    /\ last.ret = 0
    /\ Len(last.order) = 4
    /\ last.order[1] = BranchRef
    /\ Len(last.calls) = 3
    /\ last.calls[1][2] = CommitObj.id
    /\ last.calls[2][2] = TreeObj.id

(***************************************************************************)
(* Further properties of the create and delete operations, over Spec.      *)
(***************************************************************************)
\* The object database refused the write of the last create call.
WriteFailed ==
    /\ last.op \in {"git_tag_create", "git_tag_create_frombuffer"}
    /\ last.fault = "odb_write"

\* C14: when the write to the object database fails in git_tag_create or
\* git_tag_create_frombuffer, the call returns a negative value, no
\* reference is created or changed, and the value returned is the one the
\* object database returned.
WriteFailureSurfaced ==
    WriteFailed
    => /\ last.ret < 0
       /\ refs = last.before.refs
       /\ last.ret = FaultCode

\* The step at which the last git_tag_create_frombuffer is to stop, by its
\* buffer and the stores it found: the parse, the read of the target, the
\* comparison of the types, the check of the name; or none of them.
FromBufferStops ==
    IF LastParsed.ret # GIT_OK THEN "parse"
    ELSE IF LastParsed.target \notin DOMAIN last.before.odb THEN "target"
    ELSE IF last.before.odb[LastParsed.target].type # LastParsed.type
    THEN "type"
    ELSE IF /\ TagRef(LastParsed.tag_name) \in DOMAIN last.before.refs
            /\ ~last.allow_ref_overwrite
    THEN "name"
    ELSE "none"

\* The stores before the last call, with the reference ref bound to id.
BeforeWith(ref, id) ==
    [n \in DOMAIN last.before.refs \cup {ref} |->
        IF n = ref THEN id ELSE last.before.refs[n]]

\* C15: git_tag_create_frombuffer parses, reads the target, compares the
\* types and checks the name in that order, and writes only after all four:
\* a buffer that does not parse (line 334), whose target is not stored (338),
\* whose type is not the target's (342), or whose name is bound while
\* overwriting is not allowed (GIT_EEXISTS, 359) leaves both stores as they
\* were, and a buffer with the wrong type and a bound name fails at the
\* type; an object the call adds holds the caller's buffer as a tag; and a
\* call that returns 0 has bound refs/tags/<parsed name>, and nothing else,
\* to the id of a tag object whose bytes are the buffer.
FromBufferOrder ==
    last.op = "git_tag_create_frombuffer"
    => /\ FromBufferStops = "parse"
          => last.ret = GIT_ERROR /\ last.line = 334 /\ StoresUnchanged
       /\ FromBufferStops = "target"
          => last.ret = GIT_ERROR /\ last.line = 338 /\ StoresUnchanged
       /\ FromBufferStops = "type"
          => last.ret = GIT_ERROR /\ last.line = 342 /\ StoresUnchanged
       /\ (FromBufferStops = "name" /\ last.fault = "none")
          => last.ret = GIT_EEXISTS /\ last.line = 359 /\ StoresUnchanged
       /\ FromBufferStops # "none" => StoresUnchanged
       /\ \A id \in DOMAIN odb :
            IF id \in DOMAIN last.before.odb
            THEN odb[id] = last.before.odb[id]
            ELSE odb[id] = [type |-> GIT_OBJ_TAG, data |-> last.buffer]
       /\ last.ret = GIT_OK
          => /\ FromBufferStops = "none"
             /\ last.oid \in DOMAIN odb
             /\ odb[last.oid] = [type |-> GIT_OBJ_TAG, data |-> last.buffer]
             /\ refs = BeforeWith(TagRef(LastParsed.tag_name), last.oid)

\* A buffer with tagger and message was stored as it is and took over a name
\* that was bound to something else.
FromBufferOrderWitness ==
    /\ last.op = "git_tag_create_frombuffer"
    /\ last.ret = GIT_OK
    /\ LastParsed.tagger # <<>>
    /\ TagRef(LastParsed.tag_name) \in DOMAIN last.before.refs
    /\ last.oid \notin DOMAIN last.before.odb
    /\ odb[last.oid].data = last.buffer
    /\ refs[TagRef(LastParsed.tag_name)] = last.oid

(***************************************************************************)
(* Properties of the order of the fields, over SpecLines.                  *)
(***************************************************************************)
\* The last call parsed lines in the order of the format.
InOrder == last.op = "tag_parse" /\ last.arrangement = <<1, 2, 3, 4>>

\* The bytes of the last buffer after the newline of the tag line.
AfterName == last.tagger_line \o last.rest

\* The byte after the tag line is a newline, or the buffer ends there.
NoTaggerLine == AfterName = <<>> \/ AfterName[1] = NL

\* The line after the tag line is the tagger line of SigA.
GoodTaggerLine ==
    last.tagger_line = git_signature__writebuf(TaggerHeader, SigA)

\* The last parse succeeded with the object, type and name of the lines.
HeaderParsed ==
    /\ last.tag.ret = GIT_OK
    /\ last.tag.target = CommitObj.id
    /\ last.tag.type = last.type
    /\ last.tag.tag_name = last.tag_name

\* C17: tag_parse takes the fields in the order object, type, tag, tagger,
\* separator, message.  For the lines in that order, with any name, the
\* empty one too: when the byte after the tag line is a newline or the buffer
\* ends there, the parse succeeds without a tagger; when another byte
\* stands there, a valid tagger line must follow, else the parse fails at
\* the tagger (line 132); after a valid tagger line the parse succeeds when
\* nothing follows (no message) or a newline follows (the message is what
\* comes after it), and fails with "No new line before message" (line 138)
\* on any other byte.  The object, type, tag and tagger lines in any other
\* order do not parse.
FieldOrder ==
    /\ InOrder
       => /\ NoTaggerLine
             => /\ HeaderParsed
                /\ last.tag.tagger = <<>>
                /\ last.tag.message = IF AfterName = <<>> THEN <<>>
                                      ELSE <<Tail(AfterName)>>
          /\ (~NoTaggerLine /\ ~GoodTaggerLine)
             => /\ last.tag.ret = GIT_ERROR
                /\ last.tag.line = 132
          /\ (GoodTaggerLine /\ (last.rest = <<>> \/ Head(last.rest) = NL))
             => /\ HeaderParsed
                /\ last.tag.tagger = <<SigA>>
                /\ last.tag.message = IF last.rest = <<>> THEN <<>>
                                      ELSE <<Tail(last.rest)>>
          /\ (GoodTaggerLine /\ last.rest # <<>> /\ Head(last.rest) # NL)
             => /\ last.tag.ret = GIT_ERROR
                /\ last.tag.line = 138
                /\ tag_error_kind(last.tag.line) = "MissingMessageSeparator"
          /\ last.tag.ret = GIT_OK
             => (last.tag.tagger = <<>> <=> NoTaggerLine)
    /\ (last.op = "tag_parse" /\ ~InOrder)
       => IF last.arrangement = <<1, 2, 3>>
          THEN HeaderParsed /\ last.tag.tagger = <<>>
          ELSE last.tag.ret = GIT_ERROR

\* After an empty name and a valid tagger line a second tagger line stood
\* where the separator belongs.
FieldOrderWitness ==
    /\ InOrder
    /\ last.tag_name = <<>>
    /\ GoodTaggerLine
    /\ last.rest = TaggerHeader \o <<"B", NL>>
    /\ last.tag.line = 138
    /\ last.tag.tag_name = <<>>
    /\ last.tag.tagger = <<SigA>>

(***************************************************************************)
(* Properties of what the operations leave behind, over Spec.              *)
(***************************************************************************)
\* C18: when git_tag_create or git_tag_create_lightweight returns
\* GIT_EEXISTS, it does so from the name check (line 262), the oid given
\* back is the id refs/tags/<name> was and is bound to, and neither the
\* object database nor the reference store has changed.
ExistingIdReported ==
    (LastIsCreate /\ last.ret = GIT_EEXISTS)
    => /\ last.line = 262
       /\ BoundBefore
       /\ last.oid = last.before.refs[LastRef]
       /\ last.oid = refs[LastRef]
       /\ odb = last.before.odb
       /\ refs = last.before.refs

\* An annotated tag was refused for a name that an annotated tag holds: the
\* oid given back is that of the tag object written by the earlier call.
ExistingIdReportedWitness ==
    /\ last.op = "git_tag_create"
    /\ last.ret = GIT_EEXISTS
    /\ last.oid = refs[LastRef]
    /\ last.oid \notin DOMAIN InitialOdb
    /\ last.oid # last.target.id
    /\ odb[last.oid].type = GIT_OBJ_TAG

\* Every object of the object database objects is in odb, with the same type
\* and the same bytes.
StillStored(objects) ==
    \A id \in DOMAIN objects : id \in DOMAIN odb /\ odb[id] = objects[id]

\* C19: the object database only grows.  After any calls of the create,
\* delete, list and foreach operations, every object the repository started
\* with and every object that was stored before the last call is stored
\* with the same type and bytes; after a delete, and after a create that
\* replaced a binding, the object the reference was bound to (an annotation
\* or its target) is still stored; a list or foreach leaves the object
\* database as it was.
OdbOnlyGrows ==
    /\ StillStored(InitialOdb)
    /\ last.op # "none"
       => /\ StillStored(last.before.odb)
          /\ \A n \in DOMAIN last.before.refs :
                last.before.refs[n] \in DOMAIN last.before.odb
                => /\ last.before.refs[n] \in DOMAIN odb
                   /\ odb[last.before.refs[n]]
                      = last.before.odb[last.before.refs[n]]
    /\ last.op \in {"git_tag_list_match", "git_tag_foreach"}
       => odb = last.before.odb

\* An annotated tag was deleted: its reference is gone, and the tag object
\* the reference named and the commit it tags are stored.
OdbOnlyGrowsWitness ==
    /\ last.op = "git_tag_delete"
    /\ last.ret = GIT_OK
    /\ LastRef \notin DOMAIN refs
    /\ last.before.refs[LastRef] \notin DOMAIN InitialOdb
    /\ odb[last.before.refs[LastRef]].type = GIT_OBJ_TAG
    /\ CommitObj.id \in DOMAIN odb

\* The references the last call may create, change or delete: for a create
\* or delete call refs/tags/<name>, with the name given or the name parsed
\* from the buffer; none for a buffer that does not parse, and none for a
\* list or foreach call.
OwnRefs ==
    IF last.op \in {"git_tag_create", "git_tag_create_lightweight",
                    "git_tag_delete"}
    THEN {GIT_REFS_TAGS_DIR \o last.tag_name}
    ELSE IF last.op = "git_tag_create_frombuffer" /\ LastParsed.ret = GIT_OK
    THEN {GIT_REFS_TAGS_DIR \o LastParsed.tag_name}
    ELSE {}

\* The reference n is in the reference store as it was before the last
\* call: absent, or bound to the same id.
SameBinding(n) ==
    /\ n \in DOMAIN refs <=> n \in DOMAIN last.before.refs
    /\ n \in DOMAIN refs => refs[n] = last.before.refs[n]

\* C20: a call creates, changes or deletes no reference other than
\* refs/tags/<name>, for the name it was given or parsed from its buffer:
\* after any calls of the operations, every other reference, in refs/tags/
\* or outside, is as it was before the last call, the branch is bound as at
\* the start, and after a list or foreach every reference is as it was.
OnlyOwnRefChanges ==
    /\ BranchRef \in DOMAIN refs /\ refs[BranchRef] = InitialRefs[BranchRef]
    /\ last.op # "none"
       => \A n \in (DOMAIN refs \cup DOMAIN last.before.refs) \ OwnRefs :
              SameBinding(n)
    /\ last.op \in {"git_tag_list_match", "git_tag_foreach"}
       => refs = last.before.refs

\* Of two tags one was bound anew; the other and the branch are as before.
OnlyOwnRefChangesWitness ==
    /\ LastIsAnyCreate
    /\ last.ret = GIT_OK
    /\ \E own \in OwnRefs :
          /\ own \in DOMAIN last.before.refs
          /\ refs[own] # last.before.refs[own]
          /\ \E n \in DOMAIN refs \ {own, BranchRef} :
                IsTagRef(n) /\ refs[n] = last.before.refs[n]

=============================================================================
